---- MODULE Spec2Model ----
(***************************************************************************)
(* A model of the STEGOSIGHT core: the embedding techniques (LSB matching, *)
(* PVD, audio/video sample LSB, tail-append, custom PNG chunk), the        *)
(* password-based encryption layer and the payload codec.                  *)
(*                                                                         *)
(* Every operation of the core is a synchronous transform of explicitly    *)
(* passed buffers.  A behaviour of each specification below starts in a    *)
(* state that holds the inputs of one call sequence (carrier, secret_data, *)
(* params) and then applies the operations (embed, extract, ...) to them.  *)
(*                                                                         *)
(* Bytes are integers 0..255, byte strings are sequences of bytes, bit     *)
(* strings ('0'/'1' text in the source) are sequences over {0,1}.          *)
(***************************************************************************)
EXTENDS Integers, Sequences, FiniteSets, TLC

VARIABLES
    pc,           \* position in the call sequence: "ready", "embedded", "extracted", ...
    carrier,      \* the cover medium handed to embed (pixels, samples, frames or raw bytes)
    secret_data,  \* the payload bytes handed to embed
    params,       \* the remaining arguments / constructor parameters of the call
    output,       \* the contents of the output path (NoFile when nothing was written)
    result        \* what the last operation returned or raised

vars == <<pc, carrier, secret_data, params, output, result>>

NoFile == [absent |-> TRUE]
None == [none |-> TRUE]

\* A raised exception / a returned value.
Raise(kind) == [ok |-> FALSE, error |-> kind]
Return(v) == [ok |-> TRUE, value |-> v]

(***************************************************************************)
(* Shared helpers: sequences, bit strings, big-endian integers.            *)
(***************************************************************************)
Min(a, b) == IF a < b THEN a ELSE b
Max(a, b) == IF a > b THEN a ELSE b

\* The sequence s itself, as an explicit tuple (each element evaluated once).
Packed(s) == s \o <<>>

\* Python slice s[a:b] on a 0-based half-open range, clipped like Python does.
Slice(s, a, b) ==
    LET lo == Max(a, 0)
        hi == Min(b, Len(s))
    IN  IF hi <= lo THEN <<>> ELSE Packed([i \in 1..(hi - lo) |-> s[lo + i]])


\* Python integers are unbounded; every length the code compares is compared
\* against quantities far below SatInt, so values are saturated there.
SatInt == 2 ^ 27

\* int(bits, 2), saturated at SatInt.
BitsToInt(bits) ==
    LET RECURSIVE Acc(_, _)
        Acc(rest, acc) ==
            IF rest = <<>> THEN acc
            ELSE IF acc >= SatInt \div 2 THEN SatInt
            ELSE Acc(Tail(rest), 2 * acc + Head(rest))
    IN  Acc(bits, 0)

\* n.to_bytes(k, byteorder='big') / struct.pack('>I' | '>H' | '>Q', n), for the
\* n < 2^31 the model reaches (the bytes above the low four are then 0).
PackBE(n, k) == Packed([i \in 1..k |-> IF k - i > 3 THEN 0 ELSE (n \div (256 ^ (k - i))) % 256])

\* struct.unpack of a big-endian unsigned integer, saturated at SatInt.
UnpackBE(bytes) ==
    LET RECURSIVE Acc(_, _)
        Acc(rest, acc) ==
            IF rest = <<>> THEN acc
            ELSE IF acc >= SatInt \div 256 THEN SatInt
            ELSE Acc(Tail(rest), 256 * acc + Head(rest))
    IN  Acc(bytes, 0)

\* _bytes_to_bits: ''.join(format(byte, '08b') for byte in data)
BytesToBits(data) ==
    Packed([i \in 1..(8 * Len(data)) |-> (data[((i - 1) \div 8) + 1] \div (2 ^ (7 - ((i - 1) % 8)))) % 2])

\* _bits_to_bytes: groups of 8, the last group left-justified with '0'.
BitsToBytes(bits) ==
    LET n == (Len(bits) + 7) \div 8
        bitAt(i) == IF i <= Len(bits) THEN bits[i] ELSE 0
    IN  Packed([k \in 1..n |-> BitsToInt([j \in 1..8 |-> bitAt(8 * (k - 1) + j)])])

\* All byte strings of length 0..n over the byte alphabet A.
SeqsUpTo(A, n) == UNION {[1..k -> A] : k \in 0..n}

(***************************************************************************)
(* Images.  An RGB image is its height, its width and its channel values   *)
(* in numpy's C order: px[(y * width + x) * 3 + c + 1] is pixels[y, x, c]. *)
(* Output files are modelled by the pixel array they decode to (the        *)
(* lossless formats PNG/BMP).                                              *)
(***************************************************************************)
Channels == 3

Image(h, w, px) == [height |-> h, width |-> w, px |-> px]

\* pixels[y, x, c] for a position pos = <<y, x, c>> (0-based, as in the source).
PosIndex(img, pos) == (pos[1] * img.width + pos[2]) * Channels + pos[3] + 1

PixelAt(img, pos) == img.px[PosIndex(img, pos)]

(***************************************************************************)
(* LSB matching (steganography/lsb.py).                                    *)
(***************************************************************************)
\* LSBSteganography.__init__: bits_per_channel clamped into 1..4.
LSBInit(bits_per_channel, mode) ==
    [bits_per_channel |-> Min(Max(1, bits_per_channel), 4), mode |-> mode]

\* _generate_sequential_positions
GenerateSequentialPositions(height, width, channels, num_bits) ==
    LET pos(i) == <<(i \div channels) \div width, (i \div channels) % width, i % channels>>
        kept == Min(num_bits, height * width * channels)
    IN  Packed([k \in 1..kept |-> pos(k - 1)])

\* random.seed(42); random.shuffle(list(range(n))): the permutation CPython's
\* Mersenne Twister produces for the list lengths of the modelled images.
ShuffleSeed42(n) ==
    CASE n = 36 -> <<9, 12, 5, 27, 32, 19, 30, 25, 22, 26, 31, 10, 11, 28, 8, 20, 16, 35,
                     6, 24, 0, 34, 13, 18, 2, 33, 29, 21, 3, 23, 4, 14, 15, 17, 1, 7>>
      [] n = 42 -> <<9, 3, 10, 26, 37, 18, 39, 25, 4, 33, 22, 11, 29, 21, 12, 24, 35, 36,
                     32, 13, 23, 20, 28, 38, 30, 19, 16, 41, 34, 31, 0, 2, 27, 5, 6, 8,
                     14, 15, 17, 1, 7, 40>>
      [] n = 48 -> <<29, 23, 24, 10, 21, 9, 30, 39, 12, 3, 35, 4, 43, 26, 11, 33, 28, 41,
                     18, 31, 46, 32, 36, 25, 20, 22, 47, 44, 0, 19, 16, 42, 13, 38, 45, 2,
                     27, 37, 5, 34, 6, 8, 14, 15, 17, 1, 7, 40>>

\* _generate_random_positions: all positions in (y, x, c) order, shuffled with
\* the fixed seed, cut to num_bits.
GenerateRandomPositions(height, width, channels, num_bits) ==
    LET n == height * width * channels
        all == GenerateSequentialPositions(height, width, channels, n)
        perm == ShuffleSeed42(n)
    IN  Packed([k \in 1..Min(num_bits, n) |-> all[perm[k] + 1]])

\* np.gradient along one axis, times 2: central differences inside, one-sided
\* differences at the two ends (f has at least 2 entries, 0-based index i).
Gradient2(f, n, i) ==
    IF i = 0 THEN 2 * (f[2] - f[1])
    ELSE IF i = n - 1 THEN 2 * (f[n] - f[n - 1])
    ELSE f[i + 2] - f[i]

\* edge_strength[y, x] of _generate_adaptive_positions, as the exact value of
\* 36 * (gx^2 + gy^2): gray is the channel sum / 3 and the square root is
\* monotone, so the order of these integers is the order of the strengths.
EdgeStrength(img, y, x) ==
    LET sum(yy, xx) == PixelAt(img, <<yy, xx, 0>>) + PixelAt(img, <<yy, xx, 1>>)
                       + PixelAt(img, <<yy, xx, 2>>)
        row == [j \in 1..img.width |-> sum(y, j - 1)]
        col == [j \in 1..img.height |-> sum(j - 1, x)]
        gx == Gradient2(row, img.width, x)
        gy == Gradient2(col, img.height, y)
    IN  gx * gx + gy * gy

\* _generate_adaptive_positions: positions sorted by descending
\* (strength, y, x, c) in the tuple order of Python's sort, cut to num_bits.
GenerateAdaptivePositions(img, num_bits) ==
    LET KeyGreater(a, b) ==
            \/ a[1] > b[1]
            \/ a[1] = b[1] /\ a[2] > b[2]
            \/ a[1] = b[1] /\ a[2] = b[2] /\ a[3] > b[3]
            \/ a[1] = b[1] /\ a[2] = b[2] /\ a[3] = b[3] /\ a[4] > b[4]
        n == img.height * img.width * Channels
        strength == Packed([y \in 1..img.height |->
                        Packed([x \in 1..img.width |-> EdgeStrength(img, y - 1, x - 1)])])
        all == GenerateSequentialPositions(img.height, img.width, Channels, n)
        key == Packed([k \in 1..n |->
                   <<strength[all[k][1] + 1][all[k][2] + 1], all[k][1], all[k][2], all[k][3]>>])
        rank == Packed([k \in 1..n |-> Cardinality({j \in 1..n : KeyGreater(key[j], key[k])})])
        sorted == Packed([r \in 1..n |-> all[CHOOSE k \in 1..n : rank[k] = r - 1]])
    IN  Slice(sorted, 0, Min(num_bits, n))

\* The traversal of embed/extract for the instance's mode.
LSBPositions(mode, img, num_bits) ==
    IF mode = "random"
    THEN GenerateRandomPositions(img.height, img.width, Channels, num_bits)
    ELSE IF mode = "adaptive"
    THEN GenerateAdaptivePositions(img, num_bits)
    ELSE GenerateSequentialPositions(img.height, img.width, Channels, num_bits)

\* LSB matching without the two boundary cases: the sum wraps in the uint8 array.
LSBMatchUnclamped(pixel_value, bit, choice) ==
    IF pixel_value % 2 = bit THEN pixel_value ELSE (pixel_value + choice) % 256

\* LSB matching of one channel value: unchanged when the parity already is the
\* bit, else 255 -> 254, 0 -> 1, otherwise +1 or -1 (choice = random.choice([-1, 1])).
LSBMatch(pixel_value, bit, choice) ==
    IF pixel_value % 2 = bit THEN pixel_value
    ELSE IF pixel_value = 255 THEN 254
    ELSE IF pixel_value = 0 THEN 1
    ELSE pixel_value + choice

\* LSBSteganography.calculate_capacity
LSBCalculateCapacity(self, img) ==
    (img.height * img.width * Channels * self.bits_per_channel) \div 8 - 4

\* The embedding loop of LSBSteganography.embed over the given positions: the
\* stego pixels.  choices[k] is the value random.choice returns at
\* data_index k - 1.
LSBEmbedLoop(img, binary_data, positions, choices) ==
    LET n == Min(Len(positions), Len(binary_data))
        index == Packed([k \in 1..n |-> PosIndex(img, positions[k])])
    IN  Image(img.height, img.width,
              Packed([i \in 1..Len(img.px) |->
                  IF \A k \in 1..n : index[k] # i THEN img.px[i]
                  ELSE LET k == CHOOSE k \in 1..n : index[k] = i
                       IN  LSBMatch(img.px[i], binary_data[k], choices[k])]))

\* LSBSteganography.embed: [res, file], file being what is then at output_path.
LSBEmbedOp(self, img, data, choices) ==
    LET max_bytes == (img.height * img.width * Channels * self.bits_per_channel) \div 8
        data_length == Len(data)
    IN  IF data_length > max_bytes - 4
        THEN [res |-> Raise("too_large"), file |-> NoFile]
        ELSE LET binary_data == BytesToBits(PackBE(data_length, 4) \o data)
                 positions == LSBPositions(self.mode, img, Len(binary_data))
             IN  [res |-> Return("output_path"),
                  file |-> LSBEmbedLoop(img, binary_data, positions, choices)]

\* LSBSteganography.extract
LSBExtractOp(self, img) ==
    LET length_positions ==
            GenerateSequentialPositions(img.height, img.width, Channels, 32)
        length_bits == Packed([k \in 1..Len(length_positions) |->
                           PixelAt(img, length_positions[k]) % 2])
        data_length == BitsToInt(length_bits)
    IN  IF data_length <= 0 \/ data_length > 10000000
        THEN Raise("invalid_length")
        ELSE LET total_bits == 32 + data_length * 8
                 positions == LSBPositions(self.mode, img, total_bits)
                 taken == Min(Len(positions), total_bits)
                 binary_data == Packed([k \in 1..Max(taken - 32, 0) |->
                                   PixelAt(img, positions[32 + k]) % 2])
                 whole == Len(binary_data) \div 8
             IN  Return(BitsToBytes(Slice(binary_data, 0, 8 * whole)))

(***************************************************************************)
(* The LSB specification: one LSBSteganography instance, one cover, one    *)
(* payload; embed, then extract from the file embed wrote.                 *)
(***************************************************************************)
\* Longest payload enumerated over the whole byte alphabet of the model.
MaxPayloadLen == 2
\* Longest constant-fill payload (reaches capacity + 1 of every modelled cover).
MaxFillLen == 7

\* Payloads: every byte string up to MaxPayloadLen over the alphabet, and the
\* constant-fill strings up to MaxFillLen.
Payloads ==
    SeqsUpTo({0, 165, 255}, MaxPayloadLen) \cup {[i \in 1..k |-> 165] : k \in 0..MaxFillLen}

\* The outcomes of the successive random.choice([-1, 1]) calls of one embed.
Choices(pattern) ==
    [k \in 1..(8 * (MaxFillLen + 5)) |->
        IF pattern = "down" THEN -1
        ELSE IF pattern = "up" THEN 1
        ELSE IF k % 2 = 0 THEN 1 ELSE -1]

LSBStart ==
    /\ pc = "ready"
    \* cover images: 2 x 7 pixels, channel value base + step * index (mod 256)
    /\ carrier \in {Image(2, 7, Packed([i \in 1..42 |-> (b + st * (i - 1)) % 256])) :
                        b \in {0, 100, 255}, st \in {0, 37}}
    /\ secret_data \in Payloads
    /\ params \in {[self |-> LSBInit(b, m), choices |-> p] :
                      b \in {1, 2}, m \in {"sequential", "random", "adaptive"},
                      p \in {"down", "up", "alternate"}}
    /\ output = NoFile
    /\ result = None

LSBEmbed ==
    /\ pc = "ready"
    /\ LET r == LSBEmbedOp(params.self, carrier, secret_data, Choices(params.choices))
       IN  /\ result' = r.res
           /\ output' = r.file
    /\ pc' = "embedded"
    /\ UNCHANGED <<carrier, secret_data, params>>

LSBExtract ==
    /\ pc = "embedded"
    /\ output # NoFile
    /\ result' = LSBExtractOp(params.self, output)
    /\ pc' = "extracted"
    /\ UNCHANGED <<carrier, secret_data, params, output>>

SpecLSB == LSBStart /\ [][LSBEmbed \/ LSBExtract]_vars

\* C1: LSB round trip.  For every cover, traversal mode, bits_per_channel and
\* payload of length 0..calculate_capacity(cover), extract applied to the file
\* embed wrote returns exactly the payload (and embed wrote a file).
C1_LSBRoundTrip ==
    /\ (pc = "embedded" /\ Len(secret_data) <= LSBCalculateCapacity(params.self, carrier))
          => result.ok /\ output # NoFile
    /\ pc = "extracted" => result = Return(secret_data)

(***************************************************************************)
(* Pixel-value differencing (steganography/pvd.py).  flat is the image's   *)
(* channel values in C order; pair number pair_index is the two values at  *)
(* 0-based offsets 2 * pair_index and 2 * pair_index + 1.                  *)
(***************************************************************************)
\* PVDSteganography._RANGES: <<lower, upper, bits>>
PVDRanges == <<<<0, 7, 3>>, <<8, 15, 4>>, <<16, 31, 5>>, <<32, 63, 6>>,
               <<64, 127, 7>>, <<128, 255, 8>>>>

Abs(n) == IF n < 0 THEN -n ELSE n

\* _range_for_difference
RangeForDifference(diff) ==
    IF \E i \in 1..Len(PVDRanges) : PVDRanges[i][1] <= diff /\ diff <= PVDRanges[i][2]
    THEN PVDRanges[CHOOSE i \in 1..Len(PVDRanges) :
                       PVDRanges[i][1] <= diff /\ diff <= PVDRanges[i][2]]
    ELSE PVDRanges[Len(PVDRanges)]

\* _write_bits: the low len(bits) bits of value replaced by bits.
WriteBits(value, bits) ==
    IF bits = <<>> THEN value
    ELSE LET new_value == value - (value % (2 ^ Len(bits))) + BitsToInt(bits)
         IN  Max(0, Min(255, new_value))

\* _read_bits: the low width bits of value, most significant first.
ReadBits(value, width) ==
    IF width <= 0 THEN <<>>
    ELSE Packed([i \in 1..width |-> (value \div (2 ^ (width - i))) % 2])

\* The number of pixel pairs: len(range(0, len(flat) - 1, 2)).
PairCount(flat) == Len(flat) \div 2

\* _estimate_capacity: the bits of every pair_skip-th pair.
EstimateCapacity(flat, pair_skip) ==
    LET RECURSIVE From(_)
        From(pair_index) ==
            IF pair_index >= PairCount(flat) THEN 0
            ELSE (IF pair_index % pair_skip # 0 THEN 0
                  ELSE RangeForDifference(
                           Abs(flat[2 * pair_index + 1] - flat[2 * pair_index + 2]))[3])
                 + From(pair_index + 1)
    IN  From(0)

\* PVDSteganography.calculate_capacity
PVDCalculateCapacity(img, pair_skip) ==
    Max(0, (EstimateCapacity(img.px, Max(1, pair_skip)) \div 8) - 4)

\* The loop body without the re-adjustment of the difference.
PVDEmbedPairUnadjusted(a, b, bit_stream, bit_index) ==
    LET bits_per_pair == RangeForDifference(Abs(a - b))[3]
        read == Slice(bit_stream, bit_index, bit_index + bits_per_pair)
        chunk == read \o [i \in 1..(bits_per_pair - Len(read)) |-> 0]
        first_len == (bits_per_pair + 1) \div 2
    IN  [a |-> WriteBits(a, Slice(chunk, 0, first_len)),
         b |-> WriteBits(b, Slice(chunk, first_len, Len(chunk))),
         used |-> Len(chunk)]

\* One iteration of embed's loop body on a processed pair: the pair's two new
\* values and the number of stream bits consumed.
PVDEmbedPair(a, b, bit_stream, bit_index) ==
    LET range == RangeForDifference(Abs(a - b))
        lower == range[1]
        bits_per_pair == range[3]
        read == Slice(bit_stream, bit_index, bit_index + bits_per_pair)
        chunk == read \o [i \in 1..(bits_per_pair - Len(read)) |-> 0]
        first_len == (bits_per_pair + 1) \div 2
        a1 == WriteBits(a, Slice(chunk, 0, first_len))
        b1 == WriteBits(b, Slice(chunk, first_len, Len(chunk)))
        new_diff == Abs(a1 - b1)
        adjust == lower - new_diff
    IN  [a |-> IF new_diff < lower /\ a1 >= b1 THEN Min(255, a1 + adjust) ELSE a1,
         b |-> IF new_diff < lower /\ a1 < b1 THEN Min(255, b1 + adjust) ELSE b1,
         used |-> Len(chunk)]

\* embed's loop from pair pair_index on: [flat, bit_index] when it ends.
RECURSIVE PVDEmbedLoop(_, _, _, _, _)
PVDEmbedLoop(flat, bit_stream, pair_skip, pair_index, bit_index) ==
    IF pair_index >= PairCount(flat) THEN [flat |-> flat, bit_index |-> bit_index]
    ELSE IF pair_index % pair_skip # 0
    THEN PVDEmbedLoop(flat, bit_stream, pair_skip, pair_index + 1, bit_index)
    ELSE IF bit_index >= Len(bit_stream) THEN [flat |-> flat, bit_index |-> bit_index]
    ELSE LET a_idx == 2 * pair_index + 1
             b_idx == 2 * pair_index + 2
             w == PVDEmbedPair(flat[a_idx], flat[b_idx], bit_stream, bit_index)
             next == Packed([i \in 1..Len(flat) |->
                        IF i = a_idx THEN w.a ELSE IF i = b_idx THEN w.b ELSE flat[i]])
         IN  PVDEmbedLoop(next, bit_stream, pair_skip, pair_index + 1, bit_index + w.used)

\* PVDSteganography.embed (pair_skip as given to the constructor).
PVDEmbedOp(img, data, pair_skip_arg) ==
    LET pair_skip == Max(1, pair_skip_arg)
        bit_stream == BytesToBits(PackBE(Len(data), 4) \o data)
        capacity_bits == EstimateCapacity(img.px, pair_skip)
    IN  IF Len(bit_stream) > capacity_bits
        THEN [res |-> Raise("too_large"), file |-> NoFile]
        ELSE LET done == PVDEmbedLoop(img.px, bit_stream, pair_skip, 0, 0)
             IN  IF done.bit_index < Len(bit_stream)
                 THEN [res |-> Raise("embed_failed"), file |-> NoFile]
                 ELSE [res |-> Return("output_path"),
                       file |-> Image(img.height, img.width, done.flat)]

\* extract's loop from pair pair_index on: the bits collected when it ends.
\* target_bits is known once 32 bits are collected; the loop stops once
\* target_bits bits are collected.
RECURSIVE PVDExtractLoop(_, _, _, _)
PVDExtractLoop(flat, pair_skip, pair_index, bits_collected) ==
    IF pair_index >= PairCount(flat) THEN bits_collected
    ELSE IF pair_index % pair_skip # 0
    THEN PVDExtractLoop(flat, pair_skip, pair_index + 1, bits_collected)
    ELSE LET a == flat[2 * pair_index + 1]
             b == flat[2 * pair_index + 2]
             bits_per_pair == RangeForDifference(Abs(a - b))[3]
             first_len == (bits_per_pair + 1) \div 2
             second_len == bits_per_pair \div 2
             collected == bits_collected \o ReadBits(a, first_len) \o ReadBits(b, second_len)
         IN  IF /\ Len(collected) >= 32
                /\ Len(collected) >= 32 + 8 * BitsToInt(Slice(collected, 0, 32))
             THEN collected
             ELSE PVDExtractLoop(flat, pair_skip, pair_index + 1, collected)

\* PVDSteganography.extract
PVDExtractOp(img, pair_skip_arg) ==
    LET pair_skip == Max(1, pair_skip_arg)
        bits_collected == PVDExtractLoop(img.px, pair_skip, 0, <<>>)
    IN  IF Len(bits_collected) < 32
        THEN Raise("no_payload")
        ELSE LET data_length == BitsToInt(Slice(bits_collected, 0, 32))
                 target_bits == 32 + data_length * 8
                 payload == BitsToBytes(Slice(bits_collected, 0, target_bits))
             IN  Return(Slice(payload, 4, Len(payload)))

(***************************************************************************)
(* The PVD specification: one cover, one payload, one pair_skip; embed,    *)
(* then extract from the file embed wrote.                                 *)
(***************************************************************************)
PVDStart ==
    /\ pc = "ready"
    \* the covers are 2 x 3 pixels: 9 pairs, alternately p and q, of
    \* differences in several ranges
    /\ carrier \in
         {Image(2, 3, Packed([i \in 1..18 |-> IF ((i - 1) \div 2) % 2 = 0
                                              THEN p[((i - 1) % 2) + 1]
                                              ELSE q[((i - 1) % 2) + 1]])) :
             p, q \in {<<0, 0>>, <<8, 1>>, <<100, 110>>, <<200, 10>>, <<10, 200>>, <<255, 0>>,
                       <<39, 23>>}}
    /\ secret_data \in Payloads
    /\ params \in {[pair_skip |-> k] : k \in {1, 2}}
    /\ output = NoFile
    /\ result = None

PVDEmbed ==
    /\ pc = "ready"
    /\ LET r == PVDEmbedOp(carrier, secret_data, params.pair_skip)
       IN  /\ result' = r.res
           /\ output' = r.file
    /\ pc' = "embedded"
    /\ UNCHANGED <<carrier, secret_data, params>>

PVDExtract ==
    /\ pc = "embedded"
    /\ output # NoFile
    /\ result' = PVDExtractOp(output, params.pair_skip)
    /\ pc' = "extracted"
    /\ UNCHANGED <<carrier, secret_data, params, output>>

SpecPVD == PVDStart /\ [][PVDEmbed \/ PVDExtract]_vars

\* C2: PVD round trip.  For every cover, pair_skip >= 1 and payload of length
\* 0..calculate_capacity(cover), extract applied to the file embed wrote (same
\* pair_skip) returns exactly the payload.
C2_PVDRoundTrip ==
    (pc = "extracted" /\ Len(secret_data) <= PVDCalculateCapacity(carrier, params.pair_skip))
        => result = Return(secret_data)

(***************************************************************************)
(* Text.  A str is a sequence of code points; bytes.decode('utf-8') and    *)
(* str.encode('utf-8') are the strict UTF-8 codec (no surrogates occur in  *)
(* the modelled strings).                                                  *)
(***************************************************************************)
RECURSIVE Utf8Encode(_)
Utf8Encode(text) ==
    IF Len(text) = 0 THEN <<>>
    ELSE IF Len(text) = 1
    THEN LET cp == text[1]
         IN  IF cp < 128 THEN <<cp>>
             ELSE IF cp < 2048 THEN <<192 + (cp \div 64), 128 + (cp % 64)>>
             ELSE IF cp < 65536
             THEN <<224 + (cp \div 4096), 128 + ((cp \div 64) % 64), 128 + (cp % 64)>>
             ELSE <<240 + (cp \div 262144), 128 + ((cp \div 4096) % 64),
                    128 + ((cp \div 64) % 64), 128 + (cp % 64)>>
    ELSE LET half == Len(text) \div 2
             left == Slice(text, 0, half)
             right == Slice(text, half, Len(text))
         IN  Utf8Encode(left) \o Utf8Encode(right)

\* The strict decoder: [ok, text]; ok is FALSE where Python raises
\* UnicodeDecodeError (bad lead or continuation byte, overlong form,
\* surrogate, code point above U+10FFFF, truncated sequence).
RECURSIVE Utf8Decode(_)
Utf8Decode(bytes) ==
    IF bytes = <<>> THEN [ok |-> TRUE, text |-> <<>>]
    ELSE IF Len(bytes) > 4
    THEN \* A long input is decoded in two parts, cut before the first lead
         \* byte from its middle on (four continuation bytes in a row are
         \* ill-formed).
         LET half == Len(bytes) \div 2
             leads == {k \in half..(half + 3) : bytes[k] < 128 \/ bytes[k] >= 192}
             cut == CHOOSE k \in leads : \A j \in leads : k <= j
             before == Slice(bytes, 0, cut - 1)
             after == Slice(bytes, cut - 1, Len(bytes))
             left == Utf8Decode(before)
             right == Utf8Decode(after)
         IN  IF leads = {} \/ ~left.ok \/ ~right.ok THEN [ok |-> FALSE, text |-> <<>>]
             ELSE [ok |-> TRUE, text |-> left.text \o right.text]
    ELSE LET b == bytes[1]
             n == IF b < 128 THEN 1 ELSE IF b >= 194 /\ b < 224 THEN 2
                  ELSE IF b >= 224 /\ b < 240 THEN 3
                  ELSE IF b >= 240 /\ b < 245 THEN 4 ELSE 0
             cont(i) == bytes[i] >= 128 /\ bytes[i] < 192
             cp == IF n = 1 THEN b
                   ELSE IF n = 2 THEN (b - 192) * 64 + (bytes[2] - 128)
                   ELSE IF n = 3 THEN (b - 224) * 4096 + (bytes[2] - 128) * 64 + (bytes[3] - 128)
                   ELSE (b - 240) * 262144 + (bytes[2] - 128) * 4096
                        + (bytes[3] - 128) * 64 + (bytes[4] - 128)
             good == /\ n > 0
                     /\ Len(bytes) >= n
                     /\ \A i \in 2..n : cont(i)
                     /\ n = 3 => cp >= 2048 /\ ~(cp >= 55296 /\ cp < 57344)
                     /\ n = 4 => cp >= 65536 /\ cp < 1114112
             rest == Utf8Decode(Slice(bytes, n, Len(bytes)))
         IN  IF ~good THEN [ok |-> FALSE, text |-> <<>>]
             ELSE IF ~rest.ok THEN rest
             ELSE [ok |-> TRUE, text |-> <<cp>> \o rest.text]

(***************************************************************************)
(* zlib.crc32: the reflected CRC-32 (polynomial 0xEDB88320), bit by bit.   *)
(* The 32-bit register is the set of its bit positions that are 1.         *)
(***************************************************************************)
Xor(a, b) == (a \ b) \cup (b \ a)

\* One bit step: shift right, and xor the polynomial in when a 1 fell out.
Crc32Shift(reg) ==
    LET shifted == {i - 1 : i \in reg \ {0}}
        poly == {5, 8, 9, 15, 19, 20, 21, 23, 24, 26, 27, 29, 30, 31}
    IN  IF 0 \in reg THEN Xor(shifted, poly) ELSE shifted

RECURSIVE Crc32Update(_, _, _)
Crc32Update(reg, data, i) ==
    IF i > Len(data) THEN reg
    ELSE LET x == Xor(reg, {k \in 0..7 : (data[i] \div (2 ^ k)) % 2 = 1})
             next == Crc32Shift(Crc32Shift(Crc32Shift(Crc32Shift(
                     Crc32Shift(Crc32Shift(Crc32Shift(Crc32Shift(x))))))))
         IN  IF next \subseteq 0..31 THEN Crc32Update(next, data, i + 1) ELSE {}

\* zlib.crc32(data) & 0xFFFFFFFF, as its 4 big-endian bytes (struct '>I').
Crc32(data) ==
    LET reg == (0..31) \ Crc32Update(0..31, data, 1)
        byte(k) == LET lo == 8 * (4 - k)
                   IN  (IF lo \in reg THEN 1 ELSE 0) + (IF lo + 1 \in reg THEN 2 ELSE 0)
                       + (IF lo + 2 \in reg THEN 4 ELSE 0) + (IF lo + 3 \in reg THEN 8 ELSE 0)
                       + (IF lo + 4 \in reg THEN 16 ELSE 0) + (IF lo + 5 \in reg THEN 32 ELSE 0)
                       + (IF lo + 6 \in reg THEN 64 ELSE 0) + (IF lo + 7 \in reg THEN 128 ELSE 0)
    IN  <<byte(1), byte(2), byte(3), byte(4)>>

(***************************************************************************)
(* Tail-append (steganography/appender.py).  Files are byte strings.       *)
(***************************************************************************)
\* APPEND_MARKER = b"STEGOSIGHT::APPEND::V1"
AppendMarker == <<83, 84, 69, 71, 79, 83, 73, 71, 72, 84, 58, 58, 65, 80, 80, 69, 78, 68, 58, 58, 86, 49>>

AppendVersion == 1

\* _HEADER_STRUCT.size for '>BQHI'
HeaderSize == 15

\* A Python str, as its sequence of code points.
Str(text) == [str |-> text]

\* _build_trailer; _encode_filename stores no name bytes for no name and for
\* the empty name.
BuildTrailer(payload, filename) ==
    LET filename_bytes == IF filename = None \/ filename = Str(<<>>) THEN <<>>
                          ELSE Utf8Encode(filename.str)
        header == <<AppendVersion>> \o PackBE(Len(payload), 8)
                  \o PackBE(Len(filename_bytes), 2) \o Crc32(payload)
    IN  AppendMarker \o header \o filename_bytes \o payload

\* append_payload_to_file: the bytes written to the output path.
AppendPayloadToFile(cover, payload, payload_name) == cover \o BuildTrailer(payload, payload_name)

\* data.rfind(sub): the highest 0-based index where sub occurs, or -1.
RFind(data, sub) ==
    LET hits == {i \in 0..(Len(data) - Len(sub)) : Slice(data, i, i + Len(sub)) = sub}
    IN  IF hits = {} THEN -1 ELSE CHOOSE i \in hits : \A j \in hits : j <= i

\* _parse_trailer: the AppendedPayload returned, or the ValueError raised.
ParseTrailer(data) ==
    LET marker_index == RFind(data, AppendMarker)
        header_start == marker_index + Len(AppendMarker)
        header_end == header_start + HeaderSize
        version == data[header_start + 1]
        payload_length == UnpackBE(Slice(data, header_start + 1, header_start + 9))
        name_length == UnpackBE(Slice(data, header_start + 9, header_start + 11))
        checksum == Slice(data, header_start + 11, header_start + 15)
        name_end == header_end + name_length
        payload_end == name_end + payload_length
        filename_bytes == Slice(data, header_end, name_end)
        decoded == Utf8Decode(filename_bytes)
        payload_bytes == Slice(data, name_end, payload_end)
    IN  IF marker_index = -1 THEN Raise("no_marker")
        ELSE IF header_end > Len(data) THEN Raise("header_incomplete")
        ELSE IF version # AppendVersion THEN Raise("unsupported_version")
        ELSE IF payload_end > Len(data) THEN Raise("bad_length")
        ELSE IF ~decoded.ok THEN Raise("filename_not_utf8")
        ELSE IF Crc32(payload_bytes) # checksum THEN Raise("checksum_mismatch")
        ELSE Return([data |-> payload_bytes,
                     filename |-> IF filename_bytes = <<>> THEN None ELSE Str(decoded.text),
                     checksum |-> checksum,
                     version |-> version,
                     payload_length |-> payload_length])

\* has_appended_payload
HasAppendedPayload(data) == ParseTrailer(data).ok

(***************************************************************************)
(* Custom PNG chunk (steganography_module/png_chunks.py).                  *)
(***************************************************************************)
\* PNG_SIGNATURE = b"\x89PNG\r\n\x1a\n"
PngSignature == <<137, 80, 78, 71, 13, 10, 26, 10>>

\* CUSTOM_CHUNK_TYPE = b"stGO"
CustomChunkType == <<115, 116, 71, 79>>

\* _iter_png_chunks from offset on: the chunks yielded, in order; the last entry
\* is [bad |-> TRUE] where the generator raises PNGStructureError instead of
\* yielding.  (The caller checks the signature first.)
RECURSIVE IterPngChunks(_, _)
IterPngChunks(png_bytes, offset) ==
    IF offset + 8 > Len(png_bytes) THEN <<>>
    ELSE LET length == UnpackBE(Slice(png_bytes, offset, offset + 4))
             data_end == offset + 8 + length
         IN  IF data_end > Len(png_bytes) \/ data_end + 4 > Len(png_bytes)
             THEN <<[bad |-> TRUE]>>
             ELSE <<[bad |-> FALSE,
                     start_offset |-> offset,
                     chunk_type |-> Slice(png_bytes, offset + 4, offset + 8),
                     data |-> Slice(png_bytes, offset + 8, data_end),
                     crc |-> Slice(png_bytes, data_end, data_end + 4)]>>
                  \o IterPngChunks(png_bytes, data_end + 4)

\* The first chunk a "for chunk in _iter_png_chunks" loop stops at: the first
\* one that is bad or has one of the types; 0 when the loop runs to the end.
FirstChunk(chunks, types) ==
    LET hits == {i \in 1..Len(chunks) : chunks[i].bad \/ chunks[i].chunk_type \in types}
    IN  IF hits = {} THEN 0 ELSE CHOOSE i \in hits : \A j \in hits : i <= j

\* A chunk whose CRC covers the data only, not the chunk type.
ComposeChunkDataCrc(chunk_type, payload) ==
    PackBE(Len(payload), 4) \o chunk_type \o payload \o Crc32(payload)

\* _compose_chunk (png_chunks.py) and _build_chunk (png_chunk.py)
ComposeChunk(chunk_type, payload) ==
    PackBE(Len(payload), 4) \o chunk_type \o payload \o Crc32(chunk_type \o payload)

\* An embed that does not look for an existing custom chunk.
EmbedDataInChunkUnchecked(png_bytes, hide_name, hide_bytes) ==
    LET chunks == IterPngChunks(png_bytes, Len(PngSignature))
        at == FirstChunk(chunks, {<<73, 69, 78, 68>>})
        filename_bytes == Utf8Encode(hide_name.str)
        payload == PackBE(Len(filename_bytes), 2) \o filename_bytes \o hide_bytes
        iend_start == chunks[at].start_offset
    IN  IF Slice(png_bytes, 0, Len(PngSignature)) # PngSignature
        THEN [res |-> Raise("not_png"), file |-> NoFile]
        ELSE IF at = 0 THEN [res |-> Raise("no_iend"), file |-> NoFile]
        ELSE IF chunks[at].bad THEN [res |-> Raise("png_structure"), file |-> NoFile]
        ELSE [res |-> Return("output_path"),
              file |-> Slice(png_bytes, 0, iend_start)
                       \o ComposeChunk(CustomChunkType, payload)
                       \o Slice(png_bytes, iend_start, Len(png_bytes))]

\* embed_data_in_chunk: [res, file]; hide_name is hide_path.name (never empty).
EmbedDataInChunk(png_bytes, hide_name, hide_bytes) ==
    LET chunks == IterPngChunks(png_bytes, Len(PngSignature))
        at == FirstChunk(chunks, {CustomChunkType, <<73, 69, 78, 68>>})
        filename_bytes == Utf8Encode(hide_name.str)
        payload == PackBE(Len(filename_bytes), 2) \o filename_bytes \o hide_bytes
        iend_start == chunks[at].start_offset
    IN  IF Slice(png_bytes, 0, Len(PngSignature)) # PngSignature
        THEN [res |-> Raise("not_png"), file |-> NoFile]
        ELSE IF at = 0 THEN [res |-> Raise("no_iend"), file |-> NoFile]
        ELSE IF chunks[at].bad THEN [res |-> Raise("png_structure"), file |-> NoFile]
        ELSE IF chunks[at].chunk_type = CustomChunkType
        THEN [res |-> Raise("already_embedded"), file |-> NoFile]
        ELSE [res |-> Return("output_path"),
              file |-> Slice(png_bytes, 0, iend_start)
                       \o ComposeChunk(CustomChunkType, payload)
                       \o Slice(png_bytes, iend_start, Len(png_bytes))]

\* extract_data_from_chunk: the hidden file written (its name without the
\* prefix, its bytes), or the error raised.
ExtractDataFromChunk(png_bytes) ==
    LET chunks == IterPngChunks(png_bytes, Len(PngSignature))
        at == FirstChunk(chunks, {CustomChunkType})
        chunk == chunks[at]
        filename_length == UnpackBE(Slice(chunk.data, 0, 2))
        header_end == 2 + filename_length
        decoded == Utf8Decode(Slice(chunk.data, 2, header_end))
    IN  IF Slice(png_bytes, 0, Len(PngSignature)) # PngSignature THEN Raise("not_png")
        ELSE IF at = 0 THEN Raise("no_chunk")
        ELSE IF chunk.bad THEN Raise("png_structure")
        ELSE IF Crc32(chunk.chunk_type \o chunk.data) # chunk.crc THEN Raise("checksum_mismatch")
        ELSE IF Len(chunk.data) < 2 THEN Raise("bad_payload")
        ELSE IF header_end > Len(chunk.data) THEN Raise("bad_payload")
        ELSE IF ~decoded.ok THEN Raise("filename_not_utf8")
        ELSE IF decoded.text = <<>> THEN Raise("no_filename")
        ELSE Return([filename |-> Str(decoded.text),
                     data |-> Slice(chunk.data, header_end, Len(chunk.data))])

(***************************************************************************)
(* Custom PNG chunk, second implementation (steganography/png_chunk.py).   *)
(* Its _iter_chunks stops after IEND and raises when the file ends without *)
(* one; _find_chunk returns the first chunk of a wanted type.              *)
(***************************************************************************)
\* embed_file_into_png_chunk: [res, file]
EmbedFileIntoPngChunk(png_bytes, hide_name, hide_bytes) ==
    LET chunks == IterPngChunks(png_bytes, Len(PngSignature))
        at == FirstChunk(chunks, {<<73, 69, 78, 68>>})
        filename_bytes == Utf8Encode(hide_name.str)
        payload == PackBE(Len(filename_bytes), 2) \o filename_bytes \o hide_bytes
        chunk_insert_offset == chunks[at].start_offset
    IN  IF Slice(png_bytes, 0, Len(PngSignature)) # PngSignature
        THEN [res |-> Raise("not_png"), file |-> NoFile]
        ELSE IF at = 0 THEN [res |-> Raise("no_iend"), file |-> NoFile]
        ELSE IF chunks[at].bad THEN [res |-> Raise("png_structure"), file |-> NoFile]
        ELSE [res |-> Return("output_path"),
              file |-> Slice(png_bytes, 0, chunk_insert_offset)
                       \o ComposeChunk(CustomChunkType, payload)
                       \o Slice(png_bytes, chunk_insert_offset, Len(png_bytes))]

\* extract_payload_from_png_chunk: (filename, data), or the error raised
ExtractPayloadFromPngChunk(png_bytes) ==
    LET chunks == IterPngChunks(png_bytes, Len(PngSignature))
        at == FirstChunk(chunks, {CustomChunkType, <<73, 69, 78, 68>>})
        chunk == chunks[at]
        filename_len == UnpackBE(Slice(chunk.data, 0, 2))
        decoded == Utf8Decode(Slice(chunk.data, 2, 2 + filename_len))
    IN  IF Slice(png_bytes, 0, Len(PngSignature)) # PngSignature THEN Raise("not_png")
        ELSE IF at = 0 THEN Raise("no_iend")
        ELSE IF chunk.bad THEN Raise("png_structure")
        ELSE IF chunk.chunk_type # CustomChunkType THEN Raise("no_chunk")
        ELSE IF Crc32(chunk.chunk_type \o chunk.data) # chunk.crc THEN Raise("checksum_mismatch")
        ELSE IF Len(chunk.data) < 2 THEN Raise("bad_payload")
        ELSE IF 2 + filename_len > Len(chunk.data) THEN Raise("bad_payload")
        ELSE IF ~decoded.ok THEN Raise("filename_not_utf8")
        ELSE Return([filename |-> Str(decoded.text),
                     data |-> Slice(chunk.data, 2 + filename_len, Len(chunk.data))])

(***************************************************************************)
(* Specification of the container techniques: append or embed a chunk (by  *)
(* either implementation), optionally change one stored byte of the        *)
(* output, then extract.                                                   *)
(***************************************************************************)
\* A PNG of an IHDR chunk and an IEND chunk, as in the tests' _minimal_png_bytes
\* (chunk bodies shortened; the chunk walk does not interpret them).
MinimalPng == PngSignature \o ComposeChunk(<<73, 72, 68, 82>>, <<1>>) \o ComposeChunk(<<73, 69, 78, 68>>, <<>>)

ContainerStart ==
    /\ pc = "ready"
    \* the last cover is a PNG that already carries a custom chunk: the file
    \* "o" of one byte hidden in MinimalPng
    /\ carrier \in {<<>>, <<65, 66>>, MinimalPng,
                    EmbedDataInChunk(MinimalPng, Str(<<111>>), <<7>>).file}
    \* the last payload is itself a well-formed trailer of the payload <<165>>,
    \* except that the last byte of its marker is '0' instead of '1'
    /\ secret_data \in
         {<<>>, <<165>>, <<0, 255>>, AppendMarker,
          Slice(AppendMarker, 0, Len(AppendMarker) - 1) \o <<48>>
          \o Slice(BuildTrailer(<<165>>, None), Len(AppendMarker),
                   Len(BuildTrailer(<<165>>, None)))}
    /\ params \in [technique : {"append", "chunk", "chunk_file"},
                   name : {None, Str(<<>>), Str(<<110>>), Str(<<233>>)}]
    /\ params.technique # "append" => params.name \notin {None, Str(<<>>)}
    /\ output = NoFile
    /\ result = None

AppendEmbed ==
    /\ pc = "ready" /\ params.technique = "append"
    /\ output' = AppendPayloadToFile(carrier, secret_data, params.name)
    /\ result' = Return("output_path")
    /\ pc' = "embedded"
    /\ UNCHANGED <<carrier, secret_data, params>>

ChunkEmbed ==
    /\ pc = "ready" /\ params.technique = "chunk"
    /\ LET r == EmbedDataInChunk(carrier, params.name, secret_data)
       IN  output' = r.file /\ result' = r.res
    /\ pc' = "embedded"
    /\ UNCHANGED <<carrier, secret_data, params>>

\* Someone changes one byte of the stored payload in the output file: of the
\* payload bytes at the end of the trailer, or of the data field of the
\* inserted chunk (0-based offsets).
Tamper ==
    /\ pc = "embedded" /\ output # NoFile /\ params.technique \in {"append", "chunk"}
    /\ \E i \in (IF params.technique = "append"
                 THEN (Len(output) - Len(secret_data))..(Len(output) - 1)
                 ELSE (Len(carrier) - 4)..(Len(carrier) - 4 + 2
                          + Len(Utf8Encode(params.name.str)) + Len(secret_data) - 1)) :
       \E b \in {(output[i + 1] + 1) % 256, 255 - output[i + 1]} :
          output' = Packed([output EXCEPT ![i + 1] = b])
    /\ pc' = "tampered"
    /\ UNCHANGED <<carrier, secret_data, params, result>>

AppendExtract ==
    /\ pc \in {"embedded", "tampered"} /\ output # NoFile /\ params.technique = "append"
    /\ result' = ParseTrailer(output)
    /\ pc' = IF pc = "tampered" THEN "extracted_tampered" ELSE "extracted"
    /\ UNCHANGED <<carrier, secret_data, params, output>>

ChunkExtract ==
    /\ pc \in {"embedded", "tampered"} /\ output # NoFile /\ params.technique = "chunk"
    /\ result' = ExtractDataFromChunk(output)
    /\ pc' = IF pc = "tampered" THEN "extracted_tampered" ELSE "extracted"
    /\ UNCHANGED <<carrier, secret_data, params, output>>

ChunkFileEmbed ==
    /\ pc = "ready" /\ params.technique = "chunk_file"
    /\ LET r == EmbedFileIntoPngChunk(carrier, params.name, secret_data)
       IN  output' = r.file /\ result' = r.res
    /\ pc' = "embedded"
    /\ UNCHANGED <<carrier, secret_data, params>>

ChunkFileExtract ==
    /\ pc = "embedded" /\ output # NoFile /\ params.technique = "chunk_file"
    /\ result' = ExtractPayloadFromPngChunk(output)
    /\ pc' = "extracted"
    /\ UNCHANGED <<carrier, secret_data, params, output>>

SpecContainer ==
    ContainerStart /\ [][AppendEmbed \/ ChunkEmbed \/ ChunkFileEmbed \/ Tamper
                          \/ AppendExtract \/ ChunkExtract \/ ChunkFileExtract]_vars

\* C3: Tail-Append round trip.  For every cover, payload and optional name,
\* the appended output is recognised by has_appended_payload, and extraction
\* with metadata returns exactly the payload, the same filename and
\* payload_length = len(payload).
C3_AppendRoundTrip ==
    /\ (pc = "embedded" /\ params.technique = "append") => HasAppendedPayload(output)
    /\ (pc = "extracted" /\ params.technique = "append") =>
          /\ result.ok
          /\ result.value.data = secret_data
          /\ result.value.filename = params.name
          /\ result.value.payload_length = Len(secret_data)

\* C4: tamper detection.  After Tail-Append or Custom-Chunk embedding, a
\* change of any single byte of the stored payload makes extraction raise the
\* checksum-mismatch error.
C4_TamperDetected ==
    pc = "extracted_tampered" => result = Raise("checksum_mismatch")

(***************************************************************************)
(* Encryption (cryptography_module/encryption.py, key_derivation.py).      *)
(* Argon2id / PBKDF2 and AES-256-GCM are library code; they are modelled   *)
(* as ideal primitives: the derived key is determined by, and determines,  *)
(* the encoded password and the salt, and AESGCM.decrypt accepts exactly   *)
(* the (key, nonce, ciphertext+tag) that AESGCM.encrypt produced.          *)
(***************************************************************************)
\* CRYPTO_SETTINGS["salt_bytes"]
SaltBytes == 16

\* os.urandom(12)
NonceBytes == 12

\* Length of the GCM tag that AESGCM.encrypt appends to the ciphertext.
TagBytes == 16

\* A key derivation that does not use the salt.
DeriveKeyUnsalted(password, salt) == [secret |-> Utf8Encode(password.str), salt |-> <<>>]

\* derive_key(password, salt): the key, as the inputs that determine it.
DeriveKey(password, salt) == [secret |-> Utf8Encode(password.str), salt |-> salt]

\* AESGCM(key).decrypt(nonce, ciphertext, None) given what encrypt sealed.
AesGcmDecrypt(sealed, key, nonce, ciphertext) ==
    IF sealed # None /\ sealed.key = key /\ sealed.nonce = nonce /\ sealed.ct = ciphertext
    THEN Return(sealed.plaintext)
    ELSE Raise("InvalidTag")

\* A nonce read one byte too far into the blob.
BlobNonceShifted(blob) == Slice(blob, SaltBytes + 1, SaltBytes + NonceBytes + 1)

\* blob[salt_len : salt_len + 12]
BlobNonce(blob) == Slice(blob, SaltBytes, SaltBytes + NonceBytes)

\* CryptoManager.decrypt
CryptoDecrypt(sealed, blob, password) ==
    IF Len(blob) < SaltBytes + NonceBytes THEN Raise("ValueError")
    ELSE AesGcmDecrypt(sealed, DeriveKey(password, Slice(blob, 0, SaltBytes)), BlobNonce(blob),
                       Slice(blob, SaltBytes + NonceBytes, Len(blob)))

\* decrypt_data
DecryptData(sealed, blob, password) ==
    IF password = Str(<<>>) THEN Raise("ValueError")
    ELSE CryptoDecrypt(sealed, blob, password)

(***************************************************************************)
(* Specification: encrypt once, optionally change one byte of the blob,    *)
(* decrypt with some password.  params.api tells whether the caller uses   *)
(* the CryptoManager methods or the encrypt_data / decrypt_data wrappers.  *)
(***************************************************************************)
Passwords == {Str(<<>>), Str(<<112>>), Str(<<233>>), Str(<<112, 119>>)}

\* Values of os.urandom(n) and of the cipher's output of n bytes.
RandomBytes(n) == {Packed([i \in 1..n |-> 0]), Packed([i \in 1..n |-> (7 * i + 3) % 256])}

CryptoStart ==
    /\ pc = "ready"
    /\ carrier = <<>>
    /\ secret_data \in {<<>>, <<165>>, <<0, 255>>}
    /\ params \in [api : {"manager", "wrapper"}, password : Passwords,
                   sealed : {None}, decrypt_password : {None}]
    /\ output = NoFile
    /\ result = None

\* encrypt_data / CryptoManager.encrypt
Encrypt ==
    /\ pc = "ready"
    /\ IF params.api = "wrapper" /\ params.password = Str(<<>>)
       THEN /\ result' = Raise("ValueError")
            /\ UNCHANGED <<output, params>>
       ELSE \E salt \in RandomBytes(SaltBytes), nonce \in RandomBytes(NonceBytes),
               ct \in RandomBytes(Len(secret_data) + TagBytes) :
               /\ params' = [params EXCEPT !.sealed =
                                [key |-> DeriveKey(params.password, salt), nonce |-> nonce,
                                 ct |-> ct, plaintext |-> secret_data]]
               /\ output' = salt \o nonce \o ct
               /\ result' = Return("blob")
    /\ pc' = "encrypted"
    /\ UNCHANGED <<carrier, secret_data>>

\* One byte of the blob (salt, nonce or ciphertext+tag) is changed.
TamperBlob ==
    /\ pc = "encrypted" /\ output # NoFile
    /\ \E i \in 1..Len(output) : \E b \in {(output[i] + 1) % 256, 255 - output[i]} :
          output' = Packed([output EXCEPT ![i] = b])
    /\ pc' = "tampered"
    /\ UNCHANGED <<carrier, secret_data, params, result>>

\* decrypt_data / CryptoManager.decrypt
Decrypt ==
    /\ pc \in {"encrypted", "tampered"} /\ output # NoFile
    /\ \E password \in Passwords :
          /\ params' = [params EXCEPT !.decrypt_password = password]
          /\ result' = IF params.api = "wrapper"
                       THEN DecryptData(params.sealed, output, password)
                       ELSE CryptoDecrypt(params.sealed, output, password)
    /\ pc' = IF pc = "tampered" THEN "decrypted_tampered" ELSE "decrypted"
    /\ UNCHANGED <<carrier, secret_data, output>>

SpecCrypto == CryptoStart /\ [][Encrypt \/ TamperBlob \/ Decrypt]_vars

\* C5: AEAD failure.  Decrypting the blob with a password other than the one
\* it was encrypted with, or after a change of any single byte of salt, nonce
\* or ciphertext+tag, returns no plaintext; CryptoManager.decrypt, and
\* decrypt_data given a non-empty password, raise the authentication error.
C5_AeadFailure ==
    ((pc = "decrypted" /\ params.decrypt_password # params.password) \/ pc = "decrypted_tampered")
        => /\ ~result.ok
           /\ (params.api = "manager" \/ params.decrypt_password # Str(<<>>))
                 => result = Raise("InvalidTag")

\* A wrong password has been tried on an intact blob, and the right password
\* on a blob with a changed byte.
C5_Witness ==
    \/ pc = "decrypted" /\ params.decrypt_password # params.password /\ ~result.ok
    \/ pc = "decrypted_tampered" /\ params.decrypt_password = params.password /\ ~result.ok

\* C6: AEAD round trip.  For every plaintext, the empty one included, and
\* every non-empty password, decrypt_data(encrypt_data(plaintext, pw), pw)
\* is the plaintext, the blob being salt (16 bytes), nonce (12 bytes), then
\* ciphertext+tag, and the key re-derived from the first 16 bytes.
C6_AeadRoundTrip ==
    /\ (pc = "encrypted" /\ params.password # Str(<<>>)) =>
          /\ result.ok
          /\ Len(output) = SaltBytes + NonceBytes + Len(secret_data) + TagBytes
          /\ params.sealed.key = DeriveKey(params.password, Slice(output, 0, 16))
          /\ params.sealed.nonce = Slice(output, 16, 28)
          /\ params.sealed.ct = Slice(output, 28, Len(output))
    /\ (pc = "decrypted" /\ params.password # Str(<<>>)
            /\ params.decrypt_password = params.password)
          => result = Return(secret_data)

\* The empty plaintext has been encrypted and decrypted through the wrappers.
C6_Witness ==
    /\ pc = "decrypted" /\ params.api = "wrapper" /\ secret_data = <<>>
    /\ params.decrypt_password = params.password
    /\ result = Return(<<>>)

(***************************************************************************)
(* Audio LSB (steganography/audio.py).  A WAV file is its sample sequence. *)
(***************************************************************************)
Wav(samples) == [kind |-> "audio", samples |-> samples]

\* (value & ~1) | bit, which is also (value & 0xFE) | bit on a byte
SetLsb(value, bit) == value - (value % 2) + bit

\* AudioSteganography.calculate_capacity
AudioCalculateCapacity(wav) == Max(0, (Len(wav.samples) \div 8) - 4)

\* AudioSteganography.embed: [res, file]
AudioEmbedOp(wav, data) ==
    LET bit_stream == BytesToBits(PackBE(Len(data), 4) \o data)
    IN  IF Len(bit_stream) > Len(wav.samples)
        THEN [res |-> Raise("capacity_exceeded"), file |-> NoFile]
        ELSE [res |-> Return("output_path"),
              file |-> Wav(Packed([i \in 1..Len(wav.samples) |->
                           IF i <= Len(bit_stream)
                           THEN SetLsb(wav.samples[i], bit_stream[i])
                           ELSE wav.samples[i]]))]

\* The tail shared by AudioSteganography.extract and VideoSteganography.extract,
\* given the least significant bits of all samples in reading order: both
\* stop reading once the declared number of bits is there.
ExtractFromLsbs(lsbs) ==
    IF Len(lsbs) < 32 THEN Raise("no_payload")
    ELSE LET data_length == BitsToInt(Slice(lsbs, 0, 32))
             target_bits == 32 + data_length * 8
             payload == BitsToBytes(Slice(lsbs, 0, target_bits))
         IN  IF Len(lsbs) < target_bits THEN Raise("truncated")
             ELSE Return(Slice(payload, 4, Len(payload)))

\* AudioSteganography.extract
AudioExtractOp(wav) ==
    ExtractFromLsbs(Packed([i \in 1..Len(wav.samples) |-> wav.samples[i] % 2]))

(***************************************************************************)
(* Video LSB (steganography_module/video.py).  A video is its frames (each *)
(* the flattened width * height * 3 bytes) and the frame count its         *)
(* container reports (CAP_PROP_FRAME_COUNT), which may be 0.               *)
(***************************************************************************)
FrameSize(v) == v.width * v.height * 3

\* VideoSteganography.calculate_capacity
VideoCalculateCapacity(v) == Max(0, ((v.frame_count * FrameSize(v)) \div 8) - 4)

\* VideoSteganography.embed: [res, file]; file is what the VideoWriter has
\* written to the output path when embed returns or raises.
VideoEmbedOp(v, data) ==
    LET bit_stream == BytesToBits(PackBE(Len(data), 4) \o data)
        size == FrameSize(v)
        written == Packed([k \in 1..Len(v.frames) |-> Packed([j \in 1..size |->
                      LET bit_index == (k - 1) * size + j
                      IN  IF bit_index <= Len(bit_stream)
                          THEN SetLsb(v.frames[k][j], bit_stream[bit_index])
                          ELSE v.frames[k][j]])])
        bit_index_end == Min(Len(bit_stream), Len(v.frames) * size)
    IN  IF v.frame_count # 0 /\ Len(bit_stream) > v.frame_count * size
        THEN [res |-> Raise("capacity_exceeded"), file |-> NoFile]
        ELSE [res |-> IF bit_index_end < Len(bit_stream)
                      THEN Raise("embed_incomplete") ELSE Return("output_path"),
              file |-> [v EXCEPT !.frames = written]]

\* VideoSteganography.extract
VideoExtractOp(v) ==
    LET size == FrameSize(v)
    IN  ExtractFromLsbs(Packed([i \in 1..(Len(v.frames) * size) |->
            v.frames[((i - 1) \div size) + 1][((i - 1) % size) + 1] % 2]))

(***************************************************************************)
(* Specification of the sample-LSB techniques: one cover, one payload;     *)
(* embed, then extract from whatever is at the output path.                *)
(***************************************************************************)
SampleStart ==
    /\ pc = "ready"
    \* 16-bit PCM covers of 24, 40 and 48 samples; 2 x 2 videos of 3 or 4
    \* frames whose container reports the true frame count or none
    /\ carrier \in
         {Wav(Packed([i \in 1..n |-> ((b + st * (i - 1)) % 256) - 128])) :
             n \in {24, 40, 48}, b \in {0, 101}, st \in {0, 37}}
         \cup {[kind |-> "video", width |-> 2, height |-> 2, frame_count |-> fc,
                frames |-> Packed([k \in 1..n |->
                             Packed([j \in 1..12 |-> (b + 37 * (12 * k + j)) % 256])])] :
                  n \in {3, 4}, fc \in {0, 3, 4}, b \in {0, 101}}
    /\ carrier.kind = "video" => carrier.frame_count \in {0, Len(carrier.frames)}
    /\ secret_data \in Payloads
    /\ params = [technique |-> carrier.kind]
    /\ output = NoFile
    /\ result = None

AudioEmbed ==
    /\ pc = "ready" /\ carrier.kind = "audio"
    /\ LET r == AudioEmbedOp(carrier, secret_data)
       IN  output' = r.file /\ result' = r.res
    /\ pc' = "embedded"
    /\ UNCHANGED <<carrier, secret_data, params>>

VideoEmbed ==
    /\ pc = "ready" /\ carrier.kind = "video"
    /\ LET r == VideoEmbedOp(carrier, secret_data)
       IN  output' = r.file /\ result' = r.res
    /\ pc' = "embedded"
    /\ UNCHANGED <<carrier, secret_data, params>>

AudioExtract ==
    /\ pc = "embedded" /\ output # NoFile /\ carrier.kind = "audio"
    /\ result' = AudioExtractOp(output)
    /\ pc' = "extracted"
    /\ UNCHANGED <<carrier, secret_data, params, output>>

VideoExtract ==
    /\ pc = "embedded" /\ output # NoFile /\ carrier.kind = "video"
    /\ result' = VideoExtractOp(output)
    /\ pc' = "extracted"
    /\ UNCHANGED <<carrier, secret_data, params, output>>

SpecSample == SampleStart /\ [][AudioEmbed \/ VideoEmbed \/ AudioExtract \/ VideoExtract]_vars

\* C7: capacity boundary.  Embedding a payload of exactly
\* calculate_capacity(carrier) bytes succeeds, and embedding one of
\* calculate_capacity(carrier) + 1 bytes raises the capacity-exceeded error.
C7_CapacityBoundary ==
    LET capacity == IF carrier.kind = "audio" THEN AudioCalculateCapacity(carrier)
                    ELSE VideoCalculateCapacity(carrier)
    IN  pc = "embedded" =>
            /\ Len(secret_data) = capacity => result.ok
            /\ Len(secret_data) = capacity + 1 => result = Raise("capacity_exceeded")

\* C8: no partial output.  Whenever embed raises, nothing has been written
\* to the output path.
C8_NoPartialOutput ==
    (pc = "embedded" /\ ~result.ok) => output = NoFile

\* C9: length overrun.  When the length declared in the first 32 bits of the
\* stego image exceeds the bits that remain in it, extract raises an error
\* and returns no (truncated or zero-padded) payload.
C9_LengthOverrun ==
    LET length_positions ==
            GenerateSequentialPositions(output.height, output.width, Channels, 32)
        declared == BitsToInt([k \in 1..32 |-> PixelAt(output, length_positions[k]) % 2])
        budget == output.height * output.width * Channels - 32
    IN  (pc = "extracted" /\ 8 * declared > budget) => ~result.ok

(***************************************************************************)
(* Payload packaging (utils/payloads.py).  A str is the record Str of its  *)
(* code points; a dict is the sequence of its <<key, value>> items in      *)
(* insertion order, a value being a Str, [int |-> n] or [bool |-> b].      *)
(***************************************************************************)
\* The code points of the ASCII literals of the module.
Lit(word) ==
    CASE word = "type" -> <<116, 121, 112, 101>>
      [] word = "text" -> <<116, 101, 120, 116>>
      [] word = "file" -> <<102, 105, 108, 101>>
      [] word = "binary" -> <<98, 105, 110, 97, 114, 121>>
      [] word = "encoding" -> <<101, 110, 99, 111, 100, 105, 110, 103>>
      [] word = "utf-8" -> <<117, 116, 102, 45, 56>>
      [] word = "latin-1" -> <<108, 97, 116, 105, 110, 45, 49>>
      [] word = "shift_jis" -> <<115, 104, 105, 102, 116, 95, 106, 105, 115>>
      [] word = "encrypted" -> <<101, 110, 99, 114, 121, 112, 116, 101, 100>>
      [] word = "size" -> <<115, 105, 122, 101>>
      [] word = "schema" -> <<115, 99, 104, 101, 109, 97>>
      [] word = "stegosight" -> <<115, 116, 101, 103, 111, 115, 105, 103, 104, 116>>
      [] word = "version" -> <<118, 101, 114, 115, 105, 111, 110>>
      [] word = "name" -> <<110, 97, 109, 101>>
      [] word = "extension" -> <<101, 120, 116, 101, 110, 115, 105, 111, 110>>
      [] word = "true" -> <<116, 114, 117, 101>>
      [] word = "false" -> <<102, 97, 108, 115, 101>>
      [] word = ".png" -> <<46, 112, 110, 103>>
      [] word = ".bmp" -> <<46, 98, 109, 112>>
      [] word = ".tiff" -> <<46, 116, 105, 102, 102>>
      [] word = ".jpg" -> <<46, 106, 112, 103>>
      [] word = ".jpeg" -> <<46, 106, 112, 101, 103>>
      [] word = ".wav" -> <<46, 119, 97, 118>>
      [] word = ".flac" -> <<46, 102, 108, 97, 99>>
      [] word = ".mp4" -> <<46, 109, 112, 52>>
      [] word = ".avi" -> <<46, 97, 118, 105>>
      [] word = ".mkv" -> <<46, 109, 107, 118>>

\* _MAGIC = b"STEGOSIGHT"
PayloadMagic == <<83, 84, 69, 71, 79, 83, 73, 71, 72, 84>>

PayloadVersion == 1

DictHas(d, key) == \E i \in 1..Len(d) : d[i][1] = key

\* dict.get(key, default)
DictGet(d, key, default) ==
    IF DictHas(d, key) THEN d[CHOOSE i \in 1..Len(d) : d[i][1] = key][2] ELSE default

\* d[key] = value
DictSet(d, key, value) ==
    IF DictHas(d, key)
    THEN Packed([i \in 1..Len(d) |-> IF d[i][1] = key THEN <<key, value>> ELSE d[i]])
    ELSE Append(d, <<key, value>>)

\* dict.setdefault(key, value)
SetDefault(d, key, value) == IF DictHas(d, key) THEN d ELSE Append(d, <<key, value>>)

\* str(n) for n >= 0
RECURSIVE Digits(_)
Digits(n) == IF n < 10 THEN <<48 + n>> ELSE Digits(n \div 10) \o <<48 + (n % 10)>>

\* json.dumps of a str with ensure_ascii=False: only '"', '\' and the
\* control characters are escaped.
RECURSIVE JsonString(_)
JsonString(text) ==
    IF text = <<>> THEN <<>>
    ELSE LET c == Head(text)
             hex(k) == IF k < 10 THEN 48 + k ELSE 87 + k
             escaped == IF c = 34 THEN <<92, 34>>
                        ELSE IF c = 92 THEN <<92, 92>>
                        ELSE IF c = 10 THEN <<92, 110>>
                        ELSE IF c = 13 THEN <<92, 114>>
                        ELSE IF c = 9 THEN <<92, 116>>
                        ELSE IF c = 8 THEN <<92, 98>>
                        ELSE IF c = 12 THEN <<92, 102>>
                        ELSE IF c < 32 THEN <<92, 117, 48, 48, hex(c \div 16), hex(c % 16)>>
                        ELSE <<c>>
         IN  escaped \o JsonString(Tail(text))

\* json.dumps(meta, ensure_ascii=False) from item i on (without the braces)
RECURSIVE JsonItems(_, _)
JsonItems(d, i) ==
    IF i > Len(d) THEN <<>>
    ELSE LET v == d[i][2]
             value == IF "str" \in DOMAIN v THEN <<34>> \o JsonString(v.str) \o <<34>>
                      ELSE IF "int" \in DOMAIN v
                      THEN (IF v.int < 0 THEN <<45>> \o Digits(-v.int) ELSE Digits(v.int))
                      ELSE IF v.bool THEN Lit("true") ELSE Lit("false")
         IN  (IF i > 1 THEN <<44, 32>> ELSE <<>>)
             \o <<34>> \o JsonString(d[i][1]) \o <<34, 58, 32>> \o value \o JsonItems(d, i + 1)

JsonDumps(d) == <<123>> \o JsonItems(d, 1) \o <<125>>

\* json.loads, for the documents _pack_payload writes: one object whose
\* values are strings, integers and booleans.  Each parser returns
\* [ok, value, next], next being the index after what it read; ok is FALSE
\* where json raises JSONDecodeError (and for JSON outside that shape).
JsonFail == [ok |-> FALSE, value |-> <<>>, next |-> 0]

RECURSIVE JsonSkip(_, _)
JsonSkip(s, i) ==
    IF i <= Len(s) /\ s[i] \in {32, 9, 10, 13} THEN JsonSkip(s, i + 1) ELSE i

\* The body of a string from index i up to the closing quote.
RECURSIVE JsonParseString(_, _, _)
JsonParseString(s, i, acc) ==
    IF i > Len(s) THEN JsonFail
    ELSE IF s[i] = 34 THEN [ok |-> TRUE, value |-> acc, next |-> i + 1]
    ELSE IF s[i] < 32 THEN JsonFail
    ELSE IF s[i] # 92 THEN JsonParseString(s, i + 1, Packed(Append(acc, s[i])))
    ELSE IF i + 1 > Len(s) THEN JsonFail
    ELSE LET e == s[i + 1]
             hexval(c) == IF c >= 48 /\ c <= 57 THEN c - 48
                          ELSE IF c >= 97 /\ c <= 102 THEN c - 87
                          ELSE IF c >= 65 /\ c <= 70 THEN c - 55 ELSE -1
         IN  IF e \in {34, 92, 47} THEN JsonParseString(s, i + 2, Packed(Append(acc, e)))
             ELSE IF e = 98 THEN JsonParseString(s, i + 2, Packed(Append(acc, 8)))
             ELSE IF e = 102 THEN JsonParseString(s, i + 2, Packed(Append(acc, 12)))
             ELSE IF e = 110 THEN JsonParseString(s, i + 2, Packed(Append(acc, 10)))
             ELSE IF e = 114 THEN JsonParseString(s, i + 2, Packed(Append(acc, 13)))
             ELSE IF e = 116 THEN JsonParseString(s, i + 2, Packed(Append(acc, 9)))
             ELSE IF e = 117 /\ i + 5 <= Len(s) /\ \A k \in 2..5 : hexval(s[i + k]) >= 0
             THEN JsonParseString(s, i + 6,
                      Packed(Append(acc, 4096 * hexval(s[i + 2]) + 256 * hexval(s[i + 3])
                                         + 16 * hexval(s[i + 4]) + hexval(s[i + 5]))))
             ELSE JsonFail

\* The digits of an integer from index i on.
RECURSIVE JsonParseInt(_, _, _)
JsonParseInt(s, i, acc) ==
    IF i <= Len(s) /\ s[i] >= 48 /\ s[i] <= 57
    THEN JsonParseInt(s, i + 1, Min(SatInt, 10 * acc + (s[i] - 48)))
    ELSE [ok |-> TRUE, value |-> acc, next |-> i]

JsonParseValue(s, i) ==
    IF i > Len(s) THEN JsonFail
    ELSE IF s[i] = 34
    THEN LET r == JsonParseString(s, i + 1, <<>>)
         IN  IF r.ok THEN [r EXCEPT !.value = Str(r.value)] ELSE JsonFail
    ELSE IF Slice(s, i - 1, i + 3) = Lit("true")
    THEN [ok |-> TRUE, value |-> [bool |-> TRUE], next |-> i + 4]
    ELSE IF Slice(s, i - 1, i + 4) = Lit("false")
    THEN [ok |-> TRUE, value |-> [bool |-> FALSE], next |-> i + 5]
    ELSE IF s[i] >= 48 /\ s[i] <= 57
    THEN LET r == JsonParseInt(s, i, 0) IN [r EXCEPT !.value = [int |-> r.value]]
    ELSE IF s[i] = 45 /\ i + 1 <= Len(s) /\ s[i + 1] >= 48 /\ s[i + 1] <= 57
    THEN LET r == JsonParseInt(s, i + 1, 0) IN [r EXCEPT !.value = [int |-> -r.value]]
    ELSE JsonFail

\* The items of an object from index i (at a key) on, added to the dict d.
RECURSIVE JsonParseItems(_, _, _)
JsonParseItems(s, i, d) ==
    IF i > Len(s) \/ s[i] # 34 THEN JsonFail
    ELSE LET key == JsonParseString(s, i + 1, <<>>)
             colon == JsonSkip(s, key.next)
             val == JsonParseValue(s, JsonSkip(s, colon + 1))
             after == JsonSkip(s, val.next)
             items == DictSet(d, key.value, val.value)
         IN  IF ~key.ok \/ colon > Len(s) \/ s[colon] # 58 THEN JsonFail
             ELSE IF ~val.ok \/ after > Len(s) THEN JsonFail
             ELSE IF s[after] = 125 THEN [ok |-> TRUE, value |-> items, next |-> after + 1]
             ELSE IF s[after] = 44 THEN JsonParseItems(s, JsonSkip(s, after + 1), items)
             ELSE JsonFail

JsonLoads(s) ==
    LET open == JsonSkip(s, 1)
        first == JsonSkip(s, open + 1)
        r == IF first <= Len(s) /\ s[first] = 125
             THEN [ok |-> TRUE, value |-> <<>>, next |-> first + 1]
             ELSE JsonParseItems(s, first, <<>>)
    IN  IF open > Len(s) \/ s[open] # 123 THEN JsonFail
        ELSE IF r.ok /\ JsonSkip(s, r.next) = Len(s) + 1 THEN r ELSE JsonFail

\* bytes.decode('utf-8', errors='replace'): every maximal ill-formed prefix
\* becomes U+FFFD.
RECURSIVE Utf8DecodeReplace(_)
Utf8DecodeReplace(bytes) ==
    IF bytes = <<>> THEN <<>>
    ELSE LET b == bytes[1]
             n == IF b < 128 THEN 1 ELSE IF b >= 194 /\ b < 224 THEN 2
                  ELSE IF b >= 224 /\ b < 240 THEN 3
                  ELSE IF b >= 240 /\ b < 245 THEN 4 ELSE 0
             lo == IF b = 224 THEN 160 ELSE IF b = 240 THEN 144 ELSE 128
             hi == IF b = 237 THEN 159 ELSE IF b = 244 THEN 143 ELSE 191
             second == Len(bytes) >= 2 /\ bytes[2] >= lo /\ bytes[2] <= hi
             cont(i) == Len(bytes) >= i /\ bytes[i] >= 128 /\ bytes[i] < 192
             taken == IF n <= 1 \/ ~second THEN 1
                      ELSE IF n = 2 \/ ~cont(3) THEN 2
                      ELSE IF n = 3 \/ ~cont(4) THEN 3 ELSE 4
             first == Utf8Decode(Slice(bytes, 0, taken))
         IN  (IF first.ok THEN first.text ELSE <<65533>>)
             \o Utf8DecodeReplace(Slice(bytes, taken, Len(bytes)))

\* str.encode(encoding): [ok, bytes], ok FALSE where Python raises
\* (UnicodeEncodeError, or LookupError for a codec the model does not know).
\* shift_jis is modelled on its single-byte repertoire: ASCII, U+00A5 and
\* U+203E (written as 0x5C and 0x7E), and the half-width katakana.
Encode(text, encoding) ==
    IF encoding = Lit("utf-8") THEN [ok |-> TRUE, bytes |-> Utf8Encode(text)]
    ELSE IF encoding = Lit("latin-1")
    THEN [ok |-> \A i \in 1..Len(text) : text[i] < 256, bytes |-> text]
    ELSE IF encoding = Lit("shift_jis")
    THEN [ok |-> \A i \in 1..Len(text) :
                    text[i] < 128 \/ text[i] \in {165, 8254} \/ (text[i] >= 65377 /\ text[i] <= 65439),
          bytes |-> Packed([i \in 1..Len(text) |->
                       IF text[i] = 165 THEN 92 ELSE IF text[i] = 8254 THEN 126
                       ELSE IF text[i] >= 65377 THEN text[i] - 65216 ELSE text[i]])]
    ELSE [ok |-> FALSE, bytes |-> <<>>]

\* bytes.decode(encoding): [ok, text]
Decode(bytes, encoding) ==
    IF encoding = Lit("utf-8") THEN Utf8Decode(bytes)
    ELSE IF encoding = Lit("latin-1") THEN [ok |-> TRUE, text |-> bytes]
    ELSE IF encoding = Lit("shift_jis")
    THEN [ok |-> \A i \in 1..Len(bytes) : bytes[i] < 128 \/ (bytes[i] >= 161 /\ bytes[i] <= 223),
          text |-> Packed([i \in 1..Len(bytes) |->
                      IF bytes[i] >= 161 THEN bytes[i] + 65216 ELSE bytes[i]])]
    ELSE [ok |-> FALSE, text |-> <<>>]

\* A _pack_payload that takes the metadata length from the JSON text, not
\* from its UTF-8 bytes.
PackPayloadCharLength(metadata, data) ==
    LET meta == SetDefault(SetDefault(SetDefault(metadata,
                    Lit("size"), [int |-> Len(data)]),
                    Lit("schema"), Str(Lit("stegosight"))),
                    Lit("version"), [int |-> PayloadVersion])
        meta_text == JsonDumps(meta)
    IN  PayloadMagic \o <<PayloadVersion>> \o PackBE(Len(meta_text), 4)
        \o Utf8Encode(meta_text) \o data

\* _pack_payload
PackPayload(metadata, data) ==
    LET meta == SetDefault(SetDefault(SetDefault(metadata,
                    Lit("size"), [int |-> Len(data)]),
                    Lit("schema"), Str(Lit("stegosight"))),
                    Lit("version"), [int |-> PayloadVersion])
        meta_text == JsonDumps(meta)
        meta_bytes == Utf8Encode(meta_text)
        header == PayloadMagic \o <<PayloadVersion>> \o PackBE(Len(meta_bytes), 4)
    IN  header \o meta_bytes \o data

\* create_text_payload: the blob returned, or the exception of text.encode
CreateTextPayload(text, encrypted, encoding) ==
    LET data == Encode(text, encoding)
    IN  IF ~data.ok THEN Raise("encode_error")
        ELSE Return(PackPayload(<<<<Lit("type"), Str(Lit("text"))>>,
                                  <<Lit("encoding"), Str(encoding)>>,
                                  <<Lit("encrypted"), [bool |-> encrypted]>>>>, data.bytes))

\* Path(name).suffix (POSIX flavour; the paths of the model have no "."
\* components)
PathSuffix(name) ==
    LET ends == {k \in 1..Len(name) : name[k] # 47}
        stop == IF ends = {} THEN 0 ELSE CHOOSE k \in ends : \A j \in ends : j <= k
        slashes == {k \in 1..stop : name[k] = 47}
        start == IF slashes = {} THEN 0 ELSE CHOOSE k \in slashes : \A j \in slashes : j <= k
        final == Slice(name, start, stop)
        i == RFind(final, <<46>>)
    IN  IF 0 < i /\ i < Len(final) - 1 THEN Slice(final, i, Len(final)) ELSE <<>>

\* str.lstrip(".")
RECURSIVE LStripDots(_)
LStripDots(text) == IF text # <<>> /\ Head(text) = 46 THEN LStripDots(Tail(text)) ELSE text

\* create_file_payload
CreateFilePayload(data, name, encrypted) ==
    Return(PackPayload(<<<<Lit("type"), Str(Lit("file"))>>,
                         <<Lit("name"), Str(name)>>,
                         <<Lit("extension"), Str(LStripDots(PathSuffix(name)))>>,
                         <<Lit("encrypted"), [bool |-> encrypted]>>>>, data))

\* The fallback with the decode made lenient: every blob is taken as text.
LegacyFallbackLenient(blob) ==
    Return([kind |-> Str(Lit("text")),
            metadata |-> <<<<Lit("type"), Str(Lit("text"))>>,
                           <<Lit("encoding"), Str(Lit("utf-8"))>>,
                           <<Lit("size"), [int |-> Len(blob)]>>,
                           <<Lit("encrypted"), [bool |-> FALSE]>>>>,
            data |-> blob, text |-> Str(Utf8DecodeReplace(blob))])

\* unpack_payload, the fallback for legacy payloads without structured
\* metadata: raw UTF-8 text or, failing that, opaque binary
LegacyFallback(blob) ==
    LET text == Utf8Decode(blob)
    IN  IF text.ok
        THEN Return([kind |-> Str(Lit("text")),
                     metadata |-> <<<<Lit("type"), Str(Lit("text"))>>,
                                    <<Lit("encoding"), Str(Lit("utf-8"))>>,
                                    <<Lit("size"), [int |-> Len(blob)]>>,
                                    <<Lit("encrypted"), [bool |-> FALSE]>>>>,
                     data |-> blob, text |-> Str(text.text)])
        ELSE Return([kind |-> Str(Lit("binary")),
                     metadata |-> <<<<Lit("type"), Str(Lit("binary"))>>,
                                    <<Lit("size"), [int |-> Len(blob)]>>,
                                    <<Lit("encrypted"), [bool |-> FALSE]>>>>,
                     data |-> blob, text |-> None])

\* unpack_payload
UnpackPayload(blob) ==
    IF Len(blob) >= Len(PayloadMagic) + 5 /\ Slice(blob, 0, Len(PayloadMagic)) = PayloadMagic
    THEN LET start == Len(PayloadMagic) + 1
             meta_len == UnpackBE(Slice(blob, start, start + 4))
             meta_end == start + 4 + meta_len
             meta_bytes == Slice(blob, start + 4, meta_end)
             meta_text == Utf8Decode(meta_bytes)
             loaded == JsonLoads(meta_text.text)
             data == Slice(blob, meta_end, Len(blob))
             metadata == SetDefault(loaded.value, Lit("size"), [int |-> Len(data)])
             kind == DictGet(metadata, Lit("type"), Str(Lit("binary")))
             encoding == DictGet(metadata, Lit("encoding"), Str(Lit("utf-8")))
             decoded == IF "str" \in DOMAIN encoding THEN Decode(data, encoding.str)
                        ELSE [ok |-> FALSE, text |-> <<>>]
         IN  IF blob[Len(PayloadMagic) + 1] # PayloadVersion THEN Raise("unsupported_version")
             ELSE IF meta_end > Len(blob) THEN Raise("metadata_incomplete")
             ELSE IF ~meta_text.ok THEN Raise("UnicodeDecodeError")
             ELSE IF ~loaded.ok THEN Raise("JSONDecodeError")
             ELSE Return([kind |-> kind, metadata |-> metadata, data |-> data,
                          text |-> IF kind # Str(Lit("text")) THEN None
                                   ELSE IF decoded.ok THEN Str(decoded.text)
                                   ELSE Str(Utf8DecodeReplace(data))])
    ELSE LegacyFallback(blob)

(***************************************************************************)
(* Specification of the payload packaging: one secret (a text with its     *)
(* encoding, or file bytes with their name) is packed, then unpacked; or a *)
(* blob extracted from a carrier written by an older version is unpacked.  *)
(***************************************************************************)
\* Longest text enumerated over 'A', '\', U+00A5, U+00E9 and U+20AC.
MaxTextLen == 2

\* Longest legacy blob enumerated over the bytes 'A', 0x80, 0xA9, 0xC3, 0xE0
\* and 0xFF (ASCII, continuation bytes, a two- and a three-byte lead, a byte
\* no UTF-8 text holds).
MaxBlobLen == 3

PayloadStart ==
    /\ pc = "ready"
    /\ carrier = <<>>
    /\ params \in [kind : {"text"}, encoding : {Lit("utf-8"), Lit("latin-1"), Lit("shift_jis")}, encrypted : BOOLEAN]
                  \* file names "", "a.txt", "é".b", ".hidden", "x/y.tar.gz", "a\b"
                  \cup [kind : {"file"}, encrypted : BOOLEAN,
                        name : {<<>>, <<97, 46, 116, 120, 116>>,
                                <<233, 34, 46, 98>>,
                                <<46, 104, 105, 100, 100, 101, 110>>,
                                <<120, 47, 121, 46, 116, 97, 114, 46, 103, 122>>,
                                <<97, 92, 98>>}]
                  \cup [kind : {"legacy"}]
    /\ secret_data \in IF params.kind = "text"
                       THEN {Str(t) : t \in SeqsUpTo({65, 92, 165, 233, 8364}, MaxTextLen)}
                       ELSE IF params.kind = "file"
                       THEN {<<>>, <<165>>, <<0, 255>>, PayloadMagic}
                       \* legacy blobs: the enumerated ones, two of header length
                       \* that differ from the magic in its last byte only
                       \* ("STEGOSIGHx12345", and the same with 0xFF for the x),
                       \* and two that hold the magic but are shorter than a header
                       ELSE SeqsUpTo({65, 128, 169, 195, 224, 255}, MaxBlobLen)
                            \cup {Slice(PayloadMagic, 0, 9) \o tail :
                                    tail \in {<<120, 49, 50, 51, 52, 53>>,
                                              <<255, 49, 50, 51, 52, 53>>}}
                            \cup {PayloadMagic, PayloadMagic \o <<PayloadVersion, 0, 0, 0>>}
    /\ output = NoFile
    /\ result = None

CreateText ==
    /\ pc = "ready" /\ params.kind = "text"
    /\ LET r == CreateTextPayload(secret_data.str, params.encrypted, params.encoding)
       IN  result' = r /\ output' = IF r.ok THEN r.value ELSE NoFile
    /\ pc' = "packed"
    /\ UNCHANGED <<carrier, secret_data, params>>

CreateFile ==
    /\ pc = "ready" /\ params.kind = "file"
    /\ LET r == CreateFilePayload(secret_data, params.name, params.encrypted)
       IN  result' = r /\ output' = r.value
    /\ pc' = "packed"
    /\ UNCHANGED <<carrier, secret_data, params>>

Unpack ==
    /\ pc = "packed" /\ output # NoFile
    /\ result' = UnpackPayload(output)
    /\ pc' = "unpacked"
    /\ UNCHANGED <<carrier, secret_data, params, output>>

\* unpack_payload called on a blob that create_*_payload did not produce
UnpackLegacy ==
    /\ pc = "ready" /\ params.kind = "legacy"
    /\ result' = UnpackPayload(secret_data)
    /\ pc' = "unpacked_legacy"
    /\ UNCHANGED <<carrier, secret_data, params, output>>

SpecPayload == PayloadStart /\ [][CreateText \/ CreateFile \/ Unpack \/ UnpackLegacy]_vars

C11_LegacyFallback ==
    (pc = "unpacked_legacy"
        /\ Slice(secret_data, 0, Len(PayloadMagic)) # PayloadMagic) =>
        /\ result.ok
        /\ result.value.data = secret_data
        /\ DictGet(result.value.metadata, Lit("size"), None) = [int |-> Len(secret_data)]
        /\ IF secret_data \in
                 {Utf8Encode(t) : t \in SeqsUpTo({65, 192, 233, 2624, 2665}, MaxBlobLen)}
                 \cup {Slice(PayloadMagic, 0, 9) \o <<120, 49, 50, 51, 52, 53>>}
           THEN /\ result.value.kind = Str(Lit("text"))
                /\ result.value.text # None
                /\ Utf8Encode(result.value.text.str) = secret_data
           ELSE /\ result.value.kind = Str(Lit("binary"))
                /\ result.value.text = None

\* Both outcomes have happened: a multi-byte text was decoded, and a blob
\* with an overlong form was returned as binary.
C11_Witness ==
    /\ pc = "unpacked_legacy"
    /\ \/ secret_data = <<65, 195, 169>> /\ result.value.text = Str(<<65, 233>>)
       \/ secret_data = <<224, 128, 128>> /\ result.value.kind = Str(Lit("binary"))

(***************************************************************************)
(* Round trip of the sample-LSB techniques.                                *)
(***************************************************************************)
\* C12: for the audio and the video LSB technique, every carrier and every
\* payload of 0..calculate_capacity(carrier) bytes, embed succeeds and
\* extract applied to its output returns exactly the payload.
C12_SampleRoundTrip ==
    LET capacity == IF carrier.kind = "audio" THEN AudioCalculateCapacity(carrier)
                    ELSE VideoCalculateCapacity(carrier)
    IN  Len(secret_data) <= capacity =>
            /\ pc = "embedded" => result.ok
            /\ pc = "extracted" => result = Return(secret_data)

(***************************************************************************)
(* Custom chunk: round trip and placement.                                 *)
(***************************************************************************)
\* C13: for every well-formed PNG cover and every hidden file (name, bytes),
\* extracting the custom chunk from the output of the chunk embed returns
\* the same file name and byte-identical data (both implementations).
C13_ChunkRoundTrip ==
    (pc = "extracted" /\ params.technique \in {"chunk", "chunk_file"}) =>
        /\ result.ok
        /\ result.value.filename = params.name
        /\ result.value.data = secret_data

\* C14: the chunk is inserted at the start offset of the IEND chunk: the
\* output is cover[0:iend], the new chunk, cover[iend:]; the new chunk lies
\* after the PNG signature and before IEND, carries the length, the type and
\* the data (name length, name, file bytes), and its CRC32 covers the chunk
\* type and data.  (IEND is the last chunk of the covers: its 12 bytes end
\* the file.)
C14_ChunkPlacement ==
    (pc = "embedded" /\ params.technique \in {"chunk", "chunk_file"} /\ result.ok) =>
        LET iend == Len(carrier) - 12
            name_bytes == Utf8Encode(params.name.str)
            data == PackBE(Len(name_bytes), 2) \o name_bytes \o secret_data
            chunk == Slice(output, iend, Len(output) - 12)
        IN  /\ iend >= Len(PngSignature)
            /\ Slice(carrier, iend + 4, iend + 8) = <<73, 69, 78, 68>>
            /\ Len(output) = Len(carrier) + 12 + Len(data)
            /\ Slice(output, 0, iend) = Slice(carrier, 0, iend)
            /\ Slice(output, Len(output) - 12, Len(output)) = Slice(carrier, iend, Len(carrier))
            /\ Slice(chunk, 0, 4) = PackBE(Len(data), 4)
            /\ Slice(chunk, 4, 8) = CustomChunkType
            /\ Slice(chunk, 8, 8 + Len(data)) = data
            /\ Slice(chunk, 8 + Len(data), Len(chunk)) = Crc32(CustomChunkType \o data)

\* Either implementation has inserted a chunk: png_chunks.py into the
\* minimal PNG, png_chunk.py into a PNG that already carried a chunk.
C14_Witness ==
    /\ pc = "embedded" /\ result.ok /\ secret_data = <<0, 255>>
    /\ \/ params.technique = "chunk" /\ carrier = MinimalPng
       \/ params.technique = "chunk_file" /\ carrier # MinimalPng

(***************************************************************************)
(* The adaptive orchestrator (steganography/adaptive.py).  A file is its   *)
(* path, whether its content decodes as an image, the complexity           *)
(* _analyze_image_complexity computes for it and the bytes a technique can *)
(* hide in it; a secret is its length.  The techniques behind the          *)
(* orchestrator are ideal here: embed succeeds when the content is an      *)
(* image and the secret fits, and extract by the technique that embedded   *)
(* returns the secret.                                                     *)
(***************************************************************************)
\* str.lower() (the suffixes of the model are ASCII)
Lower(text) ==
    Packed([i \in 1..Len(text) |->
        IF text[i] >= 65 /\ text[i] <= 90 THEN text[i] + 32 ELSE text[i]])

\* AdaptiveSteganography._detect_file_type
DetectFileType(file_path) ==
    LET suffix == Lower(PathSuffix(file_path))
    IN  IF suffix \in {Lit(".png"), Lit(".bmp"), Lit(".tiff")} THEN "lossless_image"
        ELSE IF suffix \in {Lit(".jpg"), Lit(".jpeg")} THEN "lossy_image"
        ELSE IF suffix \in {Lit(".wav"), Lit(".flac")} THEN "audio"
        ELSE IF suffix \in {Lit(".mp4"), Lit(".avi"), Lit(".mkv")} THEN "video"
        ELSE "unknown"

\* AdaptiveSteganography._select_best_method
SelectBestMethod(cover, data_size) ==
    LET file_type == DetectFileType(cover.path)
    IN  IF file_type = "lossy_image" THEN "dct"
        ELSE IF file_type = "lossless_image"
        THEN IF cover.complexity > 50 /\ data_size > 10000 THEN "pvd" ELSE "lsb"
        ELSE "lsb"

\* AdaptiveSteganography._detect_embedding_method
DetectEmbeddingMethod(stego_path) ==
    IF DetectFileType(stego_path) = "lossy_image" THEN "dct" ELSE "lsb"

(***************************************************************************)
(* Specification of one AdaptiveSteganography instance: embed and extract  *)
(* calls in any order.  params holds the instance's last_method and the    *)
(* method argument, the selected technique and the dispatched technique of *)
(* the latest calls ("none" before the first); output is the stego file    *)
(* the latest successful embed wrote (at the default output path, which    *)
(* keeps the cover's suffix).                                              *)
(***************************************************************************)
AdaptiveStart ==
    /\ pc = "constructed"
    /\ carrier = None
    /\ secret_data = None
    /\ params = [last_method |-> "adaptive", method |-> "none", selected |-> "none",
                 dispatched |-> "none"]
    /\ output = NoFile
    /\ result = None

\* AdaptiveSteganography.embed(cover_path, secret_data, method)
\* The covers: the image "c.png" of complexity 51, the smaller image "c.PNG"
\* of complexity 50, the images "c.jpg" and "c.gif", and "c.wav" and "c.mp4",
\* which are no images.
AdaptiveEmbed ==
    \E cover \in {[path |-> t[1], image |-> t[2], complexity |-> t[3], capacity |-> t[4]] :
                    t \in {<<<<99>> \o Lit(".png"), TRUE, 51, 20000>>,
                           <<<<99, 46, 80, 78, 71>>, TRUE, 50, 10000>>,
                           <<<<99>> \o Lit(".jpg"), TRUE, 50, 20000>>,
                           <<<<99, 46, 103, 105, 102>>, TRUE, 50, 20000>>,
                           <<<<99>> \o Lit(".wav"), FALSE, 50, 0>>,
                           <<<<99>> \o Lit(".mp4"), FALSE, 50, 0>>}},
       size \in {10000, 10001},
       requested \in {"auto", "adaptive", "lsb", "pvd", "audio_lsb"} :
        LET method == IF requested \in {"auto", "adaptive"}
                      THEN SelectBestMethod(cover, size) ELSE requested
            known == method \in {"lsb", "pvd", "dct"}
            written == known /\ cover.image /\ size <= cover.capacity
        IN  /\ carrier' = cover
            /\ secret_data' = [size |-> size]
            /\ params' = [params EXCEPT !.last_method = method, !.method = requested,
                                        !.selected = method]
            /\ result' = IF ~known THEN Raise("unknown_method")
                         ELSE IF ~cover.image THEN Raise("cannot_open_image")
                         ELSE IF ~written THEN Raise("capacity_exceeded")
                         ELSE Return("output_path")
            /\ output' = IF written
                         THEN [path |-> cover.path, technique |-> method,
                               requested |-> requested, secret |-> [size |-> size]]
                         ELSE output
            /\ pc' = "embed_called"

\* AdaptiveSteganography.extract(stego_path, method) on the stego file
AdaptiveExtract ==
    /\ output # NoFile
    /\ \E requested \in {"auto", "adaptive", "lsb", "pvd", "audio_lsb"} :
        LET method == IF requested \in {"auto", "adaptive"}
                      THEN DetectEmbeddingMethod(output.path) ELSE requested
        IN  /\ params' = [params EXCEPT !.method = requested, !.dispatched = method]
            /\ result' = IF method \notin {"lsb", "pvd", "dct"} THEN Raise("unknown_method")
                         ELSE IF method = output.technique THEN Return(output.secret)
                         ELSE Raise("no_payload_found")
    /\ pc' = "extract_called"
    /\ UNCHANGED <<carrier, secret_data, output>>

SpecAdaptive == AdaptiveStart /\ [][AdaptiveEmbed \/ AdaptiveExtract]_vars

\* C15: embed with method 'auto' on a carrier whose extension is not
\* classified as lossless image, lossy image, audio or video raises the
\* unsupported-carrier error and selects no technique.
C15_UnknownCarrier ==
    (pc = "embed_called" /\ params.method = "auto"
        /\ DetectFileType(carrier.path) = "unknown") =>
        /\ result = Raise("unsupported_carrier")
        /\ params.selected = "none"

\* C16: with method 'auto' the technique chosen is a function of carrier
\* class, complexity and payload length: lossy image -> dct; lossless image
\* -> pvd when complexity > 50 and len(secret) > 10000, otherwise lsb;
\* audio -> the audio LSB technique; video -> the video LSB technique.
C16_AutoSelection ==
    (pc = "embed_called" /\ params.method = "auto") =>
        LET class == DetectFileType(carrier.path)
        IN  /\ class = "lossy_image" => params.selected = "dct"
            /\ class = "lossless_image" =>
                  params.selected = IF carrier.complexity > 50 /\ secret_data.size > 10000
                                    THEN "pvd" ELSE "lsb"
            /\ class = "audio" => params.selected = "audio_lsb"
            /\ class = "video" => params.selected = "video_lsb"

\* C17: extract(stego, 'auto') dispatches to the technique that
\* embed(cover, secret, 'auto') selected when it produced stego, and returns
\* the secret.
C17_AutoExtractMirrors ==
    (pc = "extract_called" /\ params.method = "auto" /\ output.requested = "auto") =>
        /\ params.dispatched = output.technique
        /\ result = Return(output.secret)

\* C18: last_method names the concrete technique (lsb, pvd or dct) used by
\* the most recent embed that produced an output file; an embed that raises
\* does not change it.
C18_LastMethod ==
    output # NoFile =>
        /\ params.last_method \in {"lsb", "pvd", "dct"}
        /\ params.last_method = output.technique

(***************************************************************************)
(* Risk scoring (steganalysis/risk_scoring.py, with the settings of        *)
(* config.py).  Scores are counted in hundredths, what an analyzer         *)
(* returns in thousandths, weights in tenths; the weighted mean is the     *)
(* exact quotient num / den.  A file is its path and, for each analyzer,   *)
(* what analyze returns for it or the exception it raises.                 *)
(***************************************************************************)
\* Weights looked up under the method's name instead of its score key.
WeightByMethodName(method) ==
    CASE method = "chi-square" -> 4 [] method = "ela" -> 3
      [] method = "histogram" -> 3 [] OTHER -> 2

\* self.weights.get(method, default_weight): ANALYSIS_SETTINGS["weights"],
\* and 0.2 for a key that has none
Weight(method) ==
    CASE method = "chi_square" -> 4 [] method = "ela" -> 3
      [] method = "histogram" -> 3 [] OTHER -> 2

\* self.thresholds: 30/60/80 updated with ANALYSIS_SETTINGS["risk_thresholds"]
Thresholds == [low |-> 2500, medium |-> 5000, high |-> 7500]

\* round(x, 2) of the double x that stands for num / den (in hundredths).
\* A double quotient is the exact quotient or lies a rounding error to one
\* side of it: side is -1 (below), 0 (exact) or 1 (above).  The error only
\* decides the result where num / den is an exact half; an exact half that
\* is a double goes to the even neighbour.
Round2(num, den, side) ==
    LET q == num \div den
        r == num % den
    IN  IF 2 * r < den THEN q
        ELSE IF 2 * r > den THEN q + 1
        ELSE IF side < 0 THEN q
        ELSE IF side > 0 THEN q + 1
        ELSE IF q % 2 = 0 THEN q ELSE q + 1

\* The default methods without the file-type filter.
DefaultMethodsUnfiltered(file_path) == <<"chi-square", "histogram", "ela">>

\* RiskScorer._default_methods_for_file
DefaultMethodsForFile(file_path) ==
    LET methods == <<"chi-square", "histogram", "ela">>
    IN  IF Lower(PathSuffix(file_path)) \notin {Lit(".jpg"), Lit(".jpeg")}
        THEN SelectSeq(methods, LAMBDA m : m # "ela")
        ELSE methods

\* RiskScorer._normalize_methods
NormalizeMethods(methods, file_path) ==
    LET lower(m) == CASE m = "ALL" -> "all" [] m = "ELA" -> "ela" [] OTHER -> m
        defaults == DefaultMethodsForFile(file_path)
        RECURSIVE normalized(_)
        normalized(k) ==
            IF k = 0 THEN <<>>
            ELSE normalized(k - 1) \o (IF lower(methods[k]) = "all" THEN defaults
                                       ELSE <<lower(methods[k])>>)
        all == normalized(Len(methods))
        kept(k) == /\ \A j \in 1..(k - 1) : all[j] # all[k]
                   /\ all[k] # "ela" \/ Lower(PathSuffix(file_path)) \in {Lit(".jpg"), Lit(".jpeg")}
        RECURSIVE unique(_)
        unique(k) == IF k = 0 THEN <<>>
                     ELSE unique(k - 1) \o (IF kept(k) THEN <<all[k]>> ELSE <<>>)
    IN  IF methods = <<>> \/ \E k \in 1..Len(methods) : methods[k] = "all"
        THEN defaults
        ELSE unique(Len(all))

\* RiskScorer._dispatch_method with the analyzer's analyze(file_path).
\* file.analyze[method] is what importing and running the analyzer comes to
\* once the image is open: a score, or an exception that reaches the caller.
\* ChiSquareAttack, HistogramAnalyzer, ELAAnalyzer and MLDetector each open
\* the image inside a try block whose handler logs and returns 0.
DispatchMethod(method, file) ==
    IF method \notin DOMAIN file.analyze THEN Raise("unknown_method")
    ELSE IF file.analyze[method].ok /\ ~file.opens THEN Return(0)
    ELSE file.analyze[method]

\* RiskScorer._run_methods: [scores, errors], two dicts
RECURSIVE RunMethods(_, _, _, _)
RunMethods(file, methods, scores, errors) ==
    IF methods = <<>> THEN [scores |-> scores, errors |-> errors]
    ELSE LET method == Head(methods)
             key == IF method = "chi-square" THEN "chi_square" ELSE method
             outcome == DispatchMethod(method, file)
             \* round(float(score), 2); no analyzer result of the model is an
             \* exact half of a hundredth
             rounded == (outcome.value + 5) \div 10
         IN  IF outcome.ok
             THEN RunMethods(file, Tail(methods), DictSet(scores, key, rounded), errors)
             ELSE RunMethods(file, Tail(methods), DictSet(scores, key, 0),
                             DictSet(errors, method, outcome.error))

\* RiskScorer._determine_level of the double that stands for num / den and
\* lies on the given side of it
DetermineLevel(num, den, side) ==
    LET below(threshold) == \/ num < threshold * den
                            \/ num = threshold * den /\ side < 0
    IN  IF below(Thresholds.low) THEN "LOW"
        ELSE IF below(Thresholds.medium) THEN "MEDIUM"
        ELSE IF below(Thresholds.high) THEN "HIGH"
        ELSE "CRITICAL"

\* RiskScorer._summarize: the summaries (score and level; the recommendation
\* is a text chosen by the level) it can return
Summarize(scores) ==
    LET RECURSIVE weighted_score(_)
        weighted_score(k) == IF k = 0 THEN 0
                             ELSE weighted_score(k - 1) + scores[k][2] * Weight(scores[k][1])
        RECURSIVE total_weight(_)
        total_weight(k) == IF k = 0 THEN 0 ELSE total_weight(k - 1) + Weight(scores[k][1])
        num == weighted_score(Len(scores))
        den == total_weight(Len(scores))
        final_num == Max(0, Min(10000 * den, num))
    IN  IF scores = <<>> THEN {[score |-> 0, level |-> "LOW"]}
        ELSE {[score |-> Round2(final_num, den, side),
               level |-> DetermineLevel(final_num, den, side)] : side \in {-1, 0, 1}}

(***************************************************************************)
(* Specification of the risk scorer: one file, one call of calculate_risk  *)
(* or analyze_file.                                                        *)
(***************************************************************************)
\* Files "c.png" and "c.JPG"; analyzer results around the thresholds, above
\* 100 and below 0, and failing analyzers; and the same two paths holding
\* bytes that are no image (one choice of analyzers).
RiskStart ==
    /\ pc = "ready"
    /\ carrier \in
         {[path |-> path, opens |-> TRUE,
           analyze |-> ("chi-square" :> chi) @@ ("histogram" :> hist)
                       @@ ("ela" :> ela) @@ ("ml" :> ml)] :
            path \in {<<99>> \o Lit(".png"), <<99, 46, 74, 80, 71>>},
            chi \in {Raise("analysis_failed"), Return(24996), Return(25000),
                     Return(80000), Return(300000)},
            hist \in {Raise("analysis_failed"), Return(24990), Return(20000), Return(25004)},
            ela \in {Raise("analysis_failed"), Return(25000), Return(74990)},
            ml \in {Return(25000), Return(-1000)}}
         \cup
         {[path |-> path, opens |-> FALSE,
           analyze |-> ("chi-square" :> Return(80000)) @@ ("histogram" :> hist)
                       @@ ("ela" :> Return(25000)) @@ ("ml" :> Return(25000))] :
            path \in {<<99>> \o Lit(".png"), <<99, 46, 74, 80, 71>>},
            hist \in {Raise("analysis_failed"), Return(20000)}}
    /\ secret_data = None
    /\ params \in [call : {"calculate_risk"}, methods : {<<>>}]
                  \cup [call : {"analyze_file"},
                        methods : {<<"all">>, <<>>, <<"chi-square", "ml">>, <<"ela">>,
                                   <<"ELA", "histogram", "histogram">>, <<"bogus", "ALL">>}]
    /\ output = NoFile
    /\ result = None

\* RiskScorer.calculate_risk(file_path); an empty errors dict stands for a
\* result without the key "errors"; ran is not part of the returned dict: it
\* is the list of analyzers _run_methods was given
CalculateRisk ==
    /\ pc = "ready" /\ params.call = "calculate_risk"
    /\ LET methods == DefaultMethodsForFile(carrier.path)
           run == RunMethods(carrier, methods, <<>>, <<>>)
       IN  \E summary \in Summarize(run.scores) :
             result' = Return([score |-> summary.score, level |-> summary.level,
                             details |-> run.scores,
                             errors |-> run.errors, ran |-> methods])
    /\ pc' = "scored"
    /\ UNCHANGED <<carrier, secret_data, params, output>>

\* RiskScorer.analyze_file(file_path, methods): the fields computed from the
\* scores (insights, suspected method, confidence and log are texts and a
\* number derived from the same scores)
AnalyzeFile ==
    /\ pc = "ready" /\ params.call = "analyze_file"
    /\ LET method_list == NormalizeMethods(params.methods, carrier.path)
           run == RunMethods(carrier, method_list, <<>>, <<>>)
       IN  \E summary \in Summarize(run.scores) :
             result' = Return([score |-> summary.score, level |-> summary.level,
                             details |-> run.scores,
                             suspicious |-> summary.score >= Thresholds.medium,
                             errors |-> run.errors, ran |-> method_list])
    /\ pc' = "scored"
    /\ UNCHANGED <<carrier, secret_data, params, output>>

SpecRisk == RiskStart /\ [][CalculateRisk \/ AnalyzeFile]_vars

C20_LevelOfReportedScore ==
    pc = "scored" =>
        result.value.level =
            IF result.value.score < Thresholds.low THEN "LOW"
            ELSE IF result.value.score < Thresholds.medium THEN "MEDIUM"
            ELSE IF result.value.score < Thresholds.high THEN "HIGH"
            ELSE "CRITICAL"

\* C21: in analyze_file, when a requested analyzer fails on the file (it
\* raises, or it cannot open the file), that method's sub-score is 0 and the
\* failure is recorded in the errors map under that method, every other
\* requested analyzer still runs (it has its sub-score in details), and the
\* call returns an aggregate result instead of raising.
C21_AnalyzerFaultTolerance ==
    (pc = "scored" /\ params.call = "analyze_file") =>
        LET method_list == NormalizeMethods(params.methods, carrier.path)
            key(m) == IF m = "chi-square" THEN "chi_square" ELSE m
            failed(m) == \/ m \notin DOMAIN carrier.analyze
                         \/ ~carrier.analyze[m].ok
                         \/ ~carrier.opens
        IN  /\ result.ok
            /\ \A k \in 1..Len(method_list) :
                  LET m == method_list[k]
                  IN  /\ DictHas(result.value.details, key(m))
                      /\ failed(m) =>
                            /\ DictGet(result.value.details, key(m), -1) = 0
                            /\ DictHas(result.value.errors, m)
                      /\ ~failed(m) =>
                            DictGet(result.value.details, key(m), -1)
                                = (carrier.analyze[m].value + 5) \div 10

\* C22: the analyzer list run by calculate_risk and analyze_file contains
\* "ela" only when the file extension is .jpg or .jpeg (in any case of
\* letters), whether the methods came from the defaults, from "all" or from
\* an explicit list, and no method appears twice in the list.
C22_ElaApplicability ==
    pc = "scored" =>
        LET ran == result.value.ran
        IN  /\ (\E k \in 1..Len(ran) : ran[k] = "ela")
                  => carrier.path \in {<<99>> \o Lit(".jpg"), <<99>> \o Lit(".jpeg"),
                                       <<99, 46, 74, 80, 71>>}
            /\ \A j, k \in 1..Len(ran) : ran[j] = ran[k] => j = k

\* An explicit list that names ELA and names histogram twice has been run:
\* without ELA on "c.png", with it on "c.JPG".
C22_Witness ==
    /\ pc = "scored"
    /\ params.methods = <<"ELA", "histogram", "histogram">>
    /\ \/ carrier.path = <<99>> \o Lit(".png") /\ result.value.ran = <<"histogram">>
       \/ carrier.path = <<99, 46, 74, 80, 71>> /\ result.value.ran = <<"ela", "histogram">>

(***************************************************************************)
(* Concurrent LSB embeds: two threads, each with its own LSBSteganography  *)
(* instance (bits_per_channel 1), cover and payload.  The functions of     *)
(* the module random work on one generator shared by the whole process:    *)
(* params.rng is its state, the number of shuffles of 42 elements drawn    *)
(* since the latest random.seed(42).  pc, carrier, secret_data, output and *)
(* result are per thread; params.positions[t] is the local variable        *)
(* positions of thread t.  A thread's steps are the calls it makes         *)
(* (random.seed, random.shuffle, the embedding loop with the save); the    *)
(* covers hold only 0 and 255, for which the loop never calls              *)
(* random.choice.                                                          *)
(***************************************************************************)
\* random.shuffle(list(range(n))) in generator state rng (CPython 3.11): the
\* first shuffle after random.seed(42), and the one drawn right after it.
Shuffle(rng, n) ==
    CASE rng.seeded /\ rng.shuffles = 0 -> ShuffleSeed42(n)
      [] rng.seeded /\ rng.shuffles = 1 /\ n = 42 ->
            <<13, 14, 33, 21, 0, 15, 8, 39, 28, 30, 25, 32, 10, 17, 4, 12, 3, 36,
              23, 9, 35, 1, 37, 40, 6, 31, 11, 27, 19, 20, 26, 18, 5, 24, 7, 34,
              29, 2, 16, 38, 41, 22>>

ThreadsStart ==
    /\ pc = [t \in {1, 2} |-> "start"]
    /\ carrier \in [{1, 2} -> {Image(2, 7, Packed([i \in 1..42 |-> v])) : v \in {0, 255}}]
    /\ secret_data \in [{1, 2} -> {<<>>, <<165>>}]
    /\ params \in {[rng |-> [seeded |-> FALSE, shuffles |-> 0], mode |-> m,
                    positions |-> [t \in {1, 2} |-> <<>>]] :
                      m \in [{1, 2} -> {"random", "sequential"}]}
    /\ output = [t \in {1, 2} |-> NoFile]
    /\ result = [t \in {1, 2} |-> None]

\* embed in mode 'random' enters _generate_random_positions: random.seed(42)
ThreadSeed ==
    \E t \in {1, 2} :
        /\ pc[t] = "start" /\ params.mode[t] = "random"
        /\ params' = [params EXCEPT !.rng = [seeded |-> TRUE, shuffles |-> 0]]
        /\ pc' = [pc EXCEPT ![t] = "seeded"]
        /\ UNCHANGED <<carrier, secret_data, output, result>>

\* random.shuffle(all_positions); return all_positions[:num_bits]
ThreadShuffle ==
    \E t \in {1, 2} :
        /\ pc[t] = "seeded"
        /\ LET img == carrier[t]
               n == img.height * img.width * Channels
               num_bits == 32 + 8 * Len(secret_data[t])
               all == GenerateSequentialPositions(img.height, img.width, Channels, n)
               perm == Shuffle(params.rng, n)
           IN  params' = [params EXCEPT
                            !.rng.shuffles = @ + 1,
                            !.positions[t] = Packed([k \in 1..Min(num_bits, n) |->
                                                        all[perm[k] + 1]])]
        /\ pc' = [pc EXCEPT ![t] = "positions"]
        /\ UNCHANGED <<carrier, secret_data, output, result>>

\* embed in mode 'sequential': _generate_sequential_positions
ThreadSequential ==
    \E t \in {1, 2} :
        /\ pc[t] = "start" /\ params.mode[t] = "sequential"
        /\ params' = [params EXCEPT !.positions[t] =
                         GenerateSequentialPositions(carrier[t].height, carrier[t].width,
                                                     Channels, 32 + 8 * Len(secret_data[t]))]
        /\ pc' = [pc EXCEPT ![t] = "positions"]
        /\ UNCHANGED <<carrier, secret_data, output, result>>

\* the embedding loop over positions, the save and the return
ThreadWrite ==
    \E t \in {1, 2} :
        /\ pc[t] = "positions"
        /\ output' = [output EXCEPT ![t] =
                         LSBEmbedLoop(carrier[t],
                                      BytesToBits(PackBE(Len(secret_data[t]), 4) \o secret_data[t]),
                                      params.positions[t], Choices("down"))]
        /\ result' = [result EXCEPT ![t] = Return("output_path")]
        /\ pc' = [pc EXCEPT ![t] = "done"]
        /\ UNCHANGED <<carrier, secret_data, params>>

SpecThreads ==
    ThreadsStart /\ [][ThreadSeed \/ ThreadShuffle \/ ThreadSequential \/ ThreadWrite]_vars

\* C23: when independent embeds run concurrently from separate threads, each
\* on its own carrier, every operation has the outcome it has when run
\* alone, for every interleaving: the file a thread has written is the file
\* embed writes for its instance, cover and payload on its own.
C23_ConcurrentIndependence ==
    \A t \in {1, 2} :
        pc[t] = "done" =>
            output[t] = LSBEmbedOp(LSBInit(1, params.mode[t]), carrier[t], secret_data[t],
                                   Choices("down")).file

(***************************************************************************)
(* Embedding calls on files: carrier is the directory (the content at      *)
(* each path, NoFile where there is none), output the directory as it was  *)
(* before the latest call, result what the latest call returned (the path  *)
(* it wrote) or raised.  A behaviour is a sequence of up to MaxCalls calls *)
(* of one technique: append_payload_to_file, embed_data_in_chunk or        *)
(* LSBSteganography.embed, each with any existing file as its cover and    *)
(* the default or an explicit output path.  params.hidden[path] is the     *)
(* file whose embedding wrote path.                                        *)
(***************************************************************************)
\* Calls per behaviour.
MaxCalls == 2

FilesStart ==
    /\ pc = "ready"
    /\ params \in [technique : {"append", "chunk", "lsb"}, calls : {0},
                   cover_path : {"c.png"}, output_path : {"default"},
                   hidden : {[path \in {"c.png", "c_stego.png", "c_stego_stego.png"} |->
                                [made |-> FALSE, name |-> None, data |-> <<>>]]}]
    /\ carrier \in
         {[path \in {"c.png", "c_stego.png", "c_stego_stego.png"} |->
              IF path = "c.png" THEN cover ELSE NoFile] :
            cover \in IF params.technique = "lsb"
                      THEN {Image(2, 7, Packed([i \in 1..42 |-> (b + 37 * (i - 1)) % 256])) :
                              b \in {0, 100}}
                      ELSE {<<65, 66>>, MinimalPng}}
    /\ secret_data = <<>>
    /\ output = carrier
    /\ result = None

\* The end of an embedding call with cover cover_path whose work came to
\* r = [res, file]: output_path defaults to <stem>_stego<suffix> next to the
\* cover, the file is written there and the path returned; a call that
\* raised has written nothing.
FileCall(cover_path, output_path, payload, payload_name, r) ==
    LET dst == IF output_path # "default" THEN output_path
               ELSE IF cover_path = "c.png" THEN "c_stego.png" ELSE "c_stego_stego.png"
    IN  /\ params.calls < MaxCalls
        /\ carrier[cover_path] # NoFile
        /\ carrier' = IF r.res.ok THEN [carrier EXCEPT ![dst] = r.file] ELSE carrier
        /\ output' = carrier
        /\ result' = IF r.res.ok THEN Return(dst) ELSE r.res
        /\ secret_data' = payload
        /\ params' = [params EXCEPT
                        !.calls = @ + 1, !.cover_path = cover_path,
                        !.output_path = output_path,
                        !.hidden = IF r.res.ok
                                   THEN [@ EXCEPT ![dst] = [made |-> TRUE, name |-> payload_name,
                                                           data |-> payload]]
                                   ELSE @]
        /\ pc' = "called"

\* append_payload_to_file(cover_path, payload, output_path=...)
FileAppend ==
    \E cover_path \in {"c.png", "c_stego.png"},
       output_path \in {"default", "c.png", "c_stego.png"},
       payload \in {<<>>, <<165>>} :
        /\ params.technique = "append"
        /\ FileCall(cover_path, output_path, payload, None,
                    [res |-> Return("output_path"),
                     file |-> AppendPayloadToFile(carrier[cover_path], payload, None)])

\* embed_data_in_chunk(png_filepath, file_to_hide_path, output_filepath)
FileChunkEmbed ==
    \E cover_path \in {"c.png", "c_stego.png"},
       output_path \in {"default", "c.png", "c_stego.png"},
       payload \in {<<>>, <<165>>}, hide_name \in {Str(<<110>>), Str(<<111>>)} :
        /\ params.technique = "chunk"
        /\ FileCall(cover_path, output_path, payload, hide_name,
                    EmbedDataInChunk(carrier[cover_path], hide_name, payload))

\* LSBSteganography(mode='sequential').embed(cover_path, secret_data, output_path)
FileLsbEmbed ==
    \E cover_path \in {"c.png", "c_stego.png"},
       output_path \in {"default", "c.png", "c_stego.png"},
       payload \in {<<>>, <<165>>} :
        /\ params.technique = "lsb"
        /\ FileCall(cover_path, output_path, payload, None,
                    LSBEmbedOp(LSBInit(1, "sequential"), carrier[cover_path], payload,
                               Choices("down")))

SpecFiles == FilesStart /\ [][FileAppend \/ FileChunkEmbed \/ FileLsbEmbed]_vars

\* C24: no embed changes the bytes of its input carrier file, the stego
\* result is always written to an output path distinct from the carrier, and
\* calculate_capacity(carrier) is the same before and after the embed.
C24_CarrierImmutable ==
    pc = "called" =>
        /\ carrier[params.cover_path] = output[params.cover_path]
        /\ result.ok => result.value # params.cover_path
        /\ params.technique = "lsb" =>
              LSBCalculateCapacity(LSBInit(1, "sequential"), carrier[params.cover_path])
                = LSBCalculateCapacity(LSBInit(1, "sequential"), output[params.cover_path])

\* C28: embed_data_in_chunk on a PNG that already contains a chunk of the
\* custom type raises and writes nothing, so after any sequence of
\* embed_data_in_chunk calls that starts from a PNG without that chunk, every
\* produced PNG contains exactly one chunk of the custom type and
\* extract_data_from_chunk returns the file of the embed that produced it.
C28_SingleCustomChunk ==
    params.technique = "chunk" =>
        LET custom(file) ==
                LET chunks == IterPngChunks(file, Len(PngSignature))
                IN  {k \in 1..Len(chunks) :
                        ~chunks[k].bad /\ chunks[k].chunk_type = CustomChunkType}
        IN  /\ (pc = "called" /\ custom(output[params.cover_path]) # {})
                  => ~result.ok /\ carrier = output
            /\ \A path \in DOMAIN carrier :
                  params.hidden[path].made =>
                      /\ Cardinality(custom(carrier[path])) = 1
                      /\ ExtractDataFromChunk(carrier[path])
                           = Return([filename |-> params.hidden[path].name,
                                     data |-> params.hidden[path].data])

\* A second embed, on the PNG the first one produced at the default path,
\* has raised, and that PNG is still there.
C28_Witness ==
    /\ pc = "called" /\ params.technique = "chunk" /\ params.calls = 2
    /\ params.cover_path = "c_stego.png"
    /\ result = Raise("already_embedded")
    /\ params.hidden["c_stego.png"].made

(***************************************************************************)
(* The parity rule of the JPEG DCT technique (steganography/jpeg_dct.py).  *)
(* A coefficient value is modelled in halves (carrier = 2 * value), which  *)
(* covers the integers and the ties of round; output is the integer that   *)
(* _apply_parity returns, result the bit extract reads from it.            *)
(***************************************************************************)
\* Largest coefficient magnitude enumerated.
MaxCoefficient == 16

\* _apply_parity(value, bit) for value = halves / 2; round goes to the nearest
\* integer and on a tie to the even one.
ApplyParity(halves, bit) ==
    LET q == halves \div 2
        rounded == IF halves % 2 = 0 THEN q ELSE IF q % 2 = 0 THEN q ELSE q + 1
        integer_value == IF rounded = 0 THEN 1 ELSE rounded
        moved == IF integer_value > 0
                 THEN integer_value + (IF bit = 1 THEN 1 ELSE -1)
                 ELSE integer_value - 1
    IN  IF integer_value % 2 = bit THEN integer_value
        ELSE IF moved = 0 THEN (IF bit = 1 THEN 1 ELSE -1)
        ELSE moved

ParityStart ==
    /\ pc = "ready"
    /\ carrier \in (-2 * MaxCoefficient)..(2 * MaxCoefficient)
    /\ secret_data \in {0, 1}
    /\ params = [coefficients |-> <<<<4, 3>>, <<3, 4>>>>]
    /\ output = NoFile
    /\ result = None

\* embed: dct_block[r, c] = _apply_parity(dct_block[r, c], bit)
ParityEmbed ==
    /\ pc = "ready"
    /\ output' = ApplyParity(carrier, secret_data)
    /\ pc' = "embedded"
    /\ UNCHANGED <<carrier, secret_data, params, result>>

\* extract: bit = int(round(dct_block[r, c])) & 1 of the stored coefficient
ParityExtract ==
    /\ pc = "embedded"
    /\ result' = Return(output % 2)
    /\ pc' = "extracted"
    /\ UNCHANGED <<carrier, secret_data, params, output>>

SpecParity == ParityStart /\ [][ParityEmbed \/ ParityExtract]_vars

\* C25: for every coefficient value v and target bit b, _apply_parity(v, b)
\* returns a non-zero integer whose parity, as read by extract
\* (int(round(x)) & 1), equals b.
C25_DctParity ==
    /\ pc \in {"embedded", "extracted"} => output # 0
    /\ pc = "extracted" => result = Return(secret_data)

(***************************************************************************)
(* The write rule of LSB matching, over the LSB specification.             *)
(***************************************************************************)
\* C26: LSB embed changes a channel value only at a traversed position whose
\* parity differs from the target bit, and then by exactly +1 or -1 with the
\* result in [0,255] (255 becomes 254, 0 becomes 1); after embed the parity of
\* the i-th traversed channel equals bit i of the framed stream, and every
\* channel not among the first 32 + 8 * len(payload) traversed positions is
\* unchanged.
C26_LsbWriteRule ==
    (pc = "embedded" /\ result.ok) =>
        LET stream == BytesToBits(PackBE(Len(secret_data), 4) \o secret_data)
            positions == LSBPositions(params.self.mode, carrier, 32 + 8 * Len(secret_data))
            traversed == {PosIndex(carrier, positions[k]) : k \in 1..Len(positions)}
        IN  /\ output.height = carrier.height /\ output.width = carrier.width
            /\ Len(output.px) = Len(carrier.px)
            /\ \A k \in 1..Len(positions) :
                  LET before == PixelAt(carrier, positions[k])
                      after == PixelAt(output, positions[k])
                  IN  /\ after % 2 = stream[k]
                      /\ after \in 0..255
                      /\ before % 2 = stream[k] => after = before
                      /\ before % 2 # stream[k] => after \in {before - 1, before + 1}
                      /\ (before % 2 # stream[k] /\ before = 255) => after = 254
                      /\ (before % 2 # stream[k] /\ before = 0) => after = 1
            /\ \A i \in 1..Len(carrier.px) : i \notin traversed => output.px[i] = carrier.px[i]

\* An embed that took the 255 -> 254 case, moved an inner value by one, left a
\* traversed channel of matching parity alone and left channels untraversed.
C26_Witness ==
    /\ pc = "embedded" /\ result.ok
    /\ \E i \in 1..Len(carrier.px) : carrier.px[i] = 255 /\ output.px[i] = 254
    /\ \E i \in 1..Len(carrier.px) :
          carrier.px[i] \in 1..254 /\ output.px[i] \in {carrier.px[i] - 1, carrier.px[i] + 1}
    /\ LET positions == LSBPositions(params.self.mode, carrier, 32 + 8 * Len(secret_data))
           traversed == {PosIndex(carrier, positions[k]) : k \in 1..Len(positions)}
       IN  /\ \E i \in traversed : output.px[i] = carrier.px[i]
           /\ \E i \in 1..Len(carrier.px) : i \notin traversed

(***************************************************************************)
(* The lower bound of the difference after PVD embed, over the PVD         *)
(* specification.  A pair the loop did not process keeps its two values.   *)
(***************************************************************************)
\* C27: after PVD embed has processed a pixel pair, the absolute difference of
\* the two stored values is never below the lower bound of the range that was
\* selected from the pair's original difference, and both stored values are
\* in [0,255].
C27_PvdFloor ==
    (pc = "embedded" /\ result.ok) =>
        \A pair_index \in 0..(PairCount(carrier.px) - 1) :
            LET a_idx == 2 * pair_index + 1
                b_idx == 2 * pair_index + 2
                original == Abs(carrier.px[a_idx] - carrier.px[b_idx])
                lower == CHOOSE l \in {0, 8, 16, 32, 64, 128} :
                             l <= original /\ (l = 128 \/ original < Max(2 * l, 8))
            IN  /\ Abs(output.px[a_idx] - output.px[b_idx]) >= lower
                /\ output.px[a_idx] \in 0..255
                /\ output.px[b_idx] \in 0..255

\* An embed that wrote zero bits into the pair (39, 23) of the range 16..31:
\* the written values 32 and 20 are 12 apart and the larger was raised to 36.
C27_Witness ==
    /\ pc = "embedded" /\ result.ok
    /\ \E pair_index \in 0..(PairCount(carrier.px) - 1) :
          /\ carrier.px[2 * pair_index + 1] = 39 /\ carrier.px[2 * pair_index + 2] = 23
          /\ output.px[2 * pair_index + 1] = 36 /\ output.px[2 * pair_index + 2] = 20

(***************************************************************************)
(* The Worker of the UI thread pool (stegosight/utils/threading.py).       *)
(* carrier is the WorkerConfig with the way the wrapped callable ends,     *)
(* secret_data the _is_cancelled flag, output the signals emitted so far,  *)
(* result the callable's outcome once it has completed, and params counts  *)
(* the cancel() calls and remembers whether one came before the callable   *)
(* completed.  cancel() runs on another thread, between any two steps of   *)
(* run.                                                                    *)
(***************************************************************************)
\* Most cancel() calls in one run.
MaxCancels == 3

WorkerStart ==
    /\ pc = "queued"
    /\ carrier \in {[cancellable |-> c, fn |-> f] :
                       c \in BOOLEAN,
                       f \in {Return("value"), Raise("Exception"), Raise("BaseException")}}
    /\ secret_data = FALSE
    /\ params = [cancels |-> 0, cancelled_early |-> FALSE]
    /\ output = <<>>
    /\ result = None

\* run: self.signals.started.emit(), then the callable is entered
WorkerRunStarted ==
    /\ pc = "queued"
    /\ output' = Append(output, "started")
    /\ pc' = "running"
    /\ UNCHANGED <<carrier, secret_data, params, result>>

\* run: the wrapped callable returns or raises
WorkerRunCall ==
    /\ pc = "running"
    /\ result' = carrier.fn
    /\ pc' = "completed"
    /\ UNCHANGED <<carrier, secret_data, params, output>>

\* run: the except / else branch and the finally clause
WorkerRunEmit ==
    /\ pc = "completed"
    /\ output' = (IF result = Raise("Exception") THEN Append(output, "error")
                  ELSE IF ~result.ok THEN output
                  ELSE IF secret_data THEN Append(output, "cancelled")
                  ELSE Append(output, "result")) \o <<"finished">>
    /\ pc' = "done"
    /\ UNCHANGED <<carrier, secret_data, params, result>>

\* cancel
WorkerCancel ==
    /\ params.cancels < MaxCancels
    /\ secret_data' = (IF carrier.cancellable THEN TRUE ELSE secret_data)
    /\ params' = [cancels |-> params.cancels + 1,
                  cancelled_early |-> params.cancelled_early \/ pc \in {"queued", "running"}]
    /\ UNCHANGED <<pc, carrier, output, result>>

SpecWorker ==
    WorkerStart /\ [][WorkerRunStarted \/ WorkerRunCall \/ WorkerRunEmit \/ WorkerCancel]_vars

\* C30: every run of Worker emits started first and finished last, and between
\* them exactly one of result, error or cancelled; if cancel() is called on a
\* cancellable worker at any time before the wrapped callable completes,
\* result is never emitted for that run.
C30_WorkerSignals ==
    /\ output # <<>> => output[1] = "started"
    /\ \A i \in 1..Len(output) : output[i] = "finished" => i = Len(output) /\ pc = "done"
    /\ pc = "done" =>
          /\ Len(output) = 3
          /\ output[2] \in {"result", "error", "cancelled"}
          /\ output[3] = "finished"
    /\ (carrier.cancellable /\ params.cancelled_early) =>
          \A i \in 1..Len(output) : output[i] # "result"

(***************************************************************************)
(* Extraction in the GUI worker (gui.py, WorkerThread._extract, image      *)
(* methods).  carrier is the stego file: its path, whether                 *)
(* has_appended_payload finds a trailer, and what each extractor does with *)
(* it: it raises, or returns bytes that are a payload blob ("blob"), that  *)
(* decrypt_data turns into a payload blob under the given password         *)
(* ("cipher"), or that are neither ("noise", at least 16 bytes).  params   *)
(* are the request, secret_data the locals of _extract (methods_to_try,    *)
(* the loop index, the keys of extraction_errors, maybe_encrypted_hint),   *)
(* output the extractor calls made so far, in order.                       *)
(***************************************************************************)
\* is_payload_blob: the bytes start with the magic header of the payload codec.
IsPayloadBlob(data) == data = "blob"

ExtractStart ==
    /\ pc = "ready"
    /\ carrier \in {[path |-> p, appended |-> a, extract |-> e] :
                       p \in {<<115>> \o Lit(".png"), <<115>> \o Lit(".jpg")},
                       a \in BOOLEAN,
                       e \in [{"append", "lsb", "pvd", "dct"} ->
                                 {Raise("extract"), Return("blob"), Return("cipher"),
                                  Return("noise")}]}
    /\ params \in {[method |-> m, password |-> pw, expects_encrypted |-> x, backend |-> b] :
                      m \in {"adaptive", "auto", "append", "pvd"},
                      pw \in BOOLEAN, x \in BOOLEAN, b \in BOOLEAN}
    /\ secret_data = [methods_to_try |-> <<>>, index |-> 0, extraction_errors |-> <<>>,
                      maybe_encrypted_hint |-> FALSE]
    /\ output = <<>>
    /\ result = None

\* _extract up to the loop: the candidate list, or the error raised when the
\* adaptive backend could not be imported.
ExtractPlan ==
    /\ pc = "ready"
    /\ LET adaptive_mode == params.method \in {"adaptive", "auto"}
           with_append == IF carrier.appended THEN <<"append">> ELSE <<>>
           detected == DetectEmbeddingMethod(carrier.path)
           with_detected == Append(with_append, detected)
           rest == SelectSeq(<<"lsb", "pvd", "dct">>,
                             LAMBDA c : \A k \in 1..Len(with_detected) : with_detected[k] # c)
           methods_to_try == IF params.method = "append" THEN <<"append">>
                             ELSE IF ~adaptive_mode THEN <<params.method>>
                             ELSE IF ~params.backend THEN with_append
                             ELSE with_detected \o rest
           import_error == \/ adaptive_mode /\ ~params.backend /\ with_append = <<>>
                           \/ ~adaptive_mode /\ params.method # "append" /\ ~params.backend
       IN  IF import_error
           THEN /\ result' = Raise("adaptive_import_error")
                /\ pc' = "done"
                /\ UNCHANGED secret_data
           ELSE /\ secret_data' = [secret_data EXCEPT !.methods_to_try = methods_to_try]
                /\ pc' = "loop"
                /\ UNCHANGED result
    /\ UNCHANGED <<carrier, params, output>>

\* One iteration of the loop over methods_to_try.
ExtractTry ==
    /\ pc = "loop"
    /\ secret_data.index < Len(secret_data.methods_to_try)
    /\ LET method == secret_data.methods_to_try[secret_data.index + 1]
           adaptive_mode == params.method \in {"adaptive", "auto"}
           extracted == IF method # "append" /\ ~params.backend THEN Raise("backend")
                        ELSE carrier.extract[method]
           failed == [secret_data EXCEPT
                         !.index = @ + 1,
                         !.extraction_errors =
                             IF \E k \in 1..Len(@) : @[k] = method THEN @ ELSE Append(@, method)]
       IN  /\ output' = IF method # "append" /\ ~params.backend THEN output
                        ELSE Append(output, method)
           /\ IF ~extracted.ok
              THEN /\ secret_data' = failed
                   /\ UNCHANGED <<pc, result>>
              ELSE LET payload_detected == IsPayloadBlob(extracted.value)
                       hint == \/ secret_data.maybe_encrypted_hint
                               \/ ~params.expects_encrypted /\ ~payload_detected
                   IN  IF params.password
                       THEN /\ result' = IF extracted.value = "cipher"
                                         THEN Return([method |-> method, encrypted |-> TRUE,
                                                      attempted_methods |-> secret_data.methods_to_try])
                                         ELSE Raise("wrong_password_or_damaged")
                            /\ pc' = "done"
                            /\ secret_data' = [secret_data EXCEPT !.maybe_encrypted_hint = hint]
                       ELSE IF params.expects_encrypted
                       THEN /\ result' = Raise("password_required")
                            /\ pc' = "done"
                            /\ secret_data' = [secret_data EXCEPT !.maybe_encrypted_hint = hint]
                       ELSE IF ~payload_detected /\ adaptive_mode
                       THEN /\ secret_data' = [failed EXCEPT !.maybe_encrypted_hint = hint]
                            /\ UNCHANGED <<pc, result>>
                       ELSE /\ result' = Return([method |-> method, encrypted |-> FALSE,
                                                 attempted_methods |-> secret_data.methods_to_try])
                            /\ pc' = "done"
                            /\ secret_data' = [secret_data EXCEPT !.maybe_encrypted_hint = hint]
    /\ UNCHANGED <<carrier, params>>

\* After the loop: every candidate was skipped with "continue".
ExtractNotFound ==
    /\ pc = "loop"
    /\ secret_data.index >= Len(secret_data.methods_to_try)
    /\ result' = IF secret_data.maybe_encrypted_hint /\ ~params.expects_encrypted
                 THEN Raise("not_found_maybe_encrypted")
                 ELSE Raise("not_found")
    /\ pc' = "done"
    /\ UNCHANGED <<carrier, secret_data, params, output>>

SpecExtract == ExtractStart /\ [][ExtractPlan \/ ExtractTry \/ ExtractNotFound]_vars

\* C29: in adaptive/auto mode WorkerThread._extract tries candidate methods in
\* the order append (only if an appended payload is detected), the detected
\* method, then lsb, pvd, dct, each at most once; a failure of one candidate
\* (extraction error, decryption failure, or unrecognised payload structure)
\* never prevents the remaining candidates from being tried, and the operation
\* fails only after every candidate has failed.
C29_FallbackOrder ==
    (params.method \in {"adaptive", "auto"} /\ params.backend) =>
        LET detected == IF carrier.path = <<115>> \o Lit(".jpg") THEN "dct" ELSE "lsb"
            candidates == (IF carrier.appended THEN <<"append">> ELSE <<>>)
                          \o <<detected>>
                          \o (IF detected = "lsb" THEN <<"pvd", "dct">> ELSE <<"lsb", "pvd">>)
        IN  /\ Len(output) <= Len(candidates)
            /\ \A k \in 1..Len(output) : output[k] = candidates[k]
            /\ (pc = "done" /\ ~result.ok) => output = candidates

====
